---- MODULE Spec2Model ----
(***************************************************************************)
(* Model of the wallet tracker's synchronisation engine:                   *)
(*   - the Sync Cache (dataCache part of src/src/services/solanaApi.js),   *)
(*   - the Ledger Gateway's request cache and de-duplication,              *)
(*   - the Transfer Classifier (parseTokenTransfer),                       *)
(*   - the Sync Orchestrator (fetchData / cancelFetch of the hook in       *)
(*     src/fetch-holders.js).                                              *)
(* Times are integers (milliseconds in the source, abstract ticks here);   *)
(* an ISO string and the Date parsed back from it denote the same instant. *)
(***************************************************************************)
EXTENDS Integers, Sequences, FiniteSets, TLC

\* null / undefined, by the kind of value it stands in for
NULL == "null"              \* a missing string
None == [none |-> TRUE]     \* a missing record
Undefined == -1             \* a missing number or timestamp

\* ------------------------------------------------------------------------
\* Bounds of the model
\* ------------------------------------------------------------------------
MaxOps == 3          \* steps (cache operations, clock ticks) per behaviour of SpecCache
MaxClock == 1        \* the clock of SpecCache advances while it is below MaxClock

Assets == {"A", "B"}
Addresses == {"w1", "w2"}

\* blockTime of each ledger transaction (s2 and s3 share one instant; s0 is
\* the oldest)
SigTime ==
  LET
    Signatures == {"s0", "s1", "s2", "s3"}
  IN
               [s \in Signatures |-> IF s = "s0" THEN 0 ELSE IF s = "s1" THEN 1 ELSE 2]

\* ------------------------------------------------------------------------
\* Generic helpers
\* ------------------------------------------------------------------------
Range(s) == {s[i] : i \in DOMAIN s}

\* Array.prototype.slice(-n): the last n elements
LastNMutant(s, n) == s

LastN(s, n) == IF Len(s) <= n THEN s ELSE SubSeq(s, Len(s) - n + 1, Len(s))

\* Insert x into a list sorted by timestamp descending, after every element
\* that does not compare greater (stable).
RECURSIVE InsertDesc(_, _)
InsertDesc(x, s) ==
  LET
    \* new Date(timestamp) used as a number: a null timestamp is the epoch
    DateValue(ts) == IF ts = Undefined THEN 0 ELSE ts
  IN
      IF s = <<>> THEN <<x>>
      ELSE IF DateValue(x.timestamp) > DateValue(Head(s).timestamp)
           THEN <<x>> \o s
           ELSE <<Head(s)>> \o InsertDesc(x, Tail(s))

\* Array.prototype.sort((a, b) => new Date(b.timestamp) - new Date(a.timestamp)),
\* a stable sort, newest first. (CHOOSE r \in {F(x) : x \in {e}} : TRUE is F(e)
\* with e evaluated once.)
RECURSIVE SortByTimestampDesc(_)
SortByTimestampDesc(s) ==
  IF s = <<>> THEN <<>>
  ELSE CHOOSE r \in {InsertDesc(s[Len(s)], sorted) :
                      sorted \in {SortByTimestampDesc(SubSeq(s, 1, Len(s) - 1))}} : TRUE

\* ------------------------------------------------------------------------
\* State
\* ------------------------------------------------------------------------
VARIABLES
  \* Sync Cache: the five localStorage records, each keyed by token mint
  balanceCache,    \* cwt_cache_balances
  txCache,         \* cwt_cache_transactions
  metaCache,       \* cwt_cache_token_meta
  priceCache,      \* cwt_cache_token_prices
  syncState,       \* cwt_cache_sync_state
  now,             \* Date.now()
  opCount,         \* number of steps taken
  lastCall         \* the latest cache operation called, with what it returned

VARIABLES
  \* Transfer Classifier
  clsInput,        \* the raw transaction, the watched wallet and the token mint
  clsResult,       \* what parseTokenTransfer returned (None for null)
  clsDone          \* whether the classifier has run

VARIABLES
  \* Ledger Gateway
  gwCache,           \* const cache = new Map(): key -> { data, timestamp }
  pendingRequests,   \* const pendingRequests = new Map(): key -> promise
  inFlight,          \* the remote requests issued and not yet settled
  issued,            \* number of remote requests issued so far
  lastGw             \* how the latest gateway call was served

VARIABLES
  \* Sync Orchestrator (the useWalletTracker hook)
  pc,                \* the fetchData invocations: the await each one is at
  cyc,               \* the fetchData invocations: the locals of each
  isFetching,        \* isFetchingRef.current
  abortController,   \* abortControllerRef.current: the cycle whose controller it holds
  forceFullFetch,    \* forceFullFetchRef.current
  isLoading,         \* useState isLoading
  isRefreshing,      \* useState isRefreshing
  error,             \* useState error
  loadingStatus,     \* useState loadingStatus: stage and progress
  statusResets,      \* pending setTimeout(500) callbacks that reset loadingStatus
  walletData,        \* useState walletData: the visible balances
  transactions,      \* useState transactions: the visible transfers
  tokenInfo,         \* useState tokenInfo
  storedWalletData,  \* legacy localStorage record written by saveWalletData
  storedTransactions,\* legacy localStorage record written by saveTransactions
  started,           \* number of refresh cycles started so far
  heliusApiKey,      \* settings.heliusApiKey
  target             \* whether tokenMint and wallets are set (non-empty)

VARIABLES
  \* Holdings table status
  stInput,         \* the wallet's transfers, its balance and the current time
  stResult,        \* the status getActivityStatus returned
  stDone           \* whether getActivityStatus has run

VARIABLES
  \* Gateway group loops
  bIn,             \* the arguments of the call
  bPc,             \* "idle", "group", "delay" or "done"
  bI,              \* the loop variable i
  bOutstanding,    \* accounts of the group whose remote request is in flight
  bGroup,          \* the results of the group so far, per account
  bResults,        \* results
  bProgress,       \* the completed counts passed to onProgress
  bRequests,       \* accounts for which a remote request was sent
  bDispatched,     \* the number of accounts of each group started
  bWaits           \* the pauses taken, in milliseconds

VARIABLES
  \* Watch set (the wallets of the useWalletTracker hook)
  walletList,      \* useState wallets
  storedWallets,   \* localStorage record written by saveWallets
  savedProject,    \* the wallets of the project saved by saveCurrentProject
  nextWalletId,    \* number of ids handed out by crypto.randomUUID()
  watchOps         \* number of steps taken

VARIABLES
  \* Two merges into the Sync Cache, in both orders
  mgIn,            \* the cached record and the two batches
  mgAB,            \* the record after merging A and then B
  mgBA             \* the record after merging B and then A

VARIABLES
  \* One call of getWalletTransactions
  fetchIn,         \* its arguments and the ledger it reads
  fetchSt          \* its locals, the pages it has requested and what it returned

VARIABLES
  \* The progress reports of one refresh cycle
  progN,           \* validWallets.length
  progSt           \* the stage reached, the loop index and the percentages reported

cacheVars == <<balanceCache, txCache, metaCache, priceCache, syncState>>
cacheSpecVars == <<balanceCache, txCache, metaCache, priceCache, syncState,
                   now, opCount, lastCall>>
clsVars == <<clsInput, clsResult, clsDone>>
gwVars == <<gwCache, pendingRequests, inFlight, issued, lastGw>>
orchVars == <<pc, cyc, isFetching, abortController, forceFullFetch, isLoading,
              isRefreshing, error, loadingStatus, statusResets, walletData,
              transactions, tokenInfo, storedWalletData, storedTransactions, started,
              heliusApiKey, target>>
statusVars == <<stInput, stResult, stDone>>
\* the units modelled on their own
batchVars == <<bIn, bPc, bI, bOutstanding, bGroup, bResults, bProgress, bRequests,
               bDispatched, bWaits>>
watchVars == <<walletList, storedWallets, savedProject, nextWalletId, watchOps>>
mergeVars == <<mgIn, mgAB, mgBA>>
pageVars == <<fetchIn, fetchSt>>
progressVars == <<progN, progSt>>
unitVars == <<clsVars, statusVars, batchVars, watchVars, mergeVars, pageVars, progressVars>>
vars == <<cacheSpecVars, unitVars, gwVars, orchVars>>

\* ------------------------------------------------------------------------
\* Sync Cache (pure part): each operator maps the stored record to the
\* record the function saves
\* ------------------------------------------------------------------------

\* updateSyncState(tokenMint, dataType, timestamp)
updateSyncState(state, tokenMint, dataType, timestamp) ==
  LET
    NoSync == [balances |-> Undefined, transactions |-> Undefined]
  IN
      LET cur == IF state[tokenMint] = None THEN NoSync ELSE state[tokenMint]
      IN  [state EXCEPT ![tokenMint] = [cur EXCEPT ![dataType] = timestamp]]

\* isStale(lastSync, ttl)
isStaleMutant(lastSync, ttl) ==
  IF lastSync = Undefined THEN TRUE ELSE (now - lastSync) >= ttl

isStale(lastSync, ttl) ==
  IF lastSync = Undefined THEN TRUE ELSE (now - lastSync) > ttl

HISTORY_KEEP == 9
PRICE_HISTORY_KEEP == 99

RECURSIVE MergeWallets(_, _, _)
MergeWallets(ws, balances, ts) ==
  LET
    \* index of the entry for an address in a wallet list, 0 when absent
    IndexOfAddress(ws_, address) ==
      IF \E i \in DOMAIN ws_ : ws_[i].address = address
      THEN CHOOSE i \in DOMAIN ws_ : ws_[i].address = address
             /\ \A j \in DOMAIN ws_ : ws_[j].address = address => i <= j
      ELSE 0
    \* one iteration of the forEach of cacheWalletBalances: existingMap.set(...)
    MergeWallet(ws_, wallet, ts_) ==
      LET i == IndexOfAddress(ws_, wallet.address)
          prev == IF i = 0 THEN None ELSE ws_[i]
          entry == [address |-> wallet.address,
                    uiBalance |-> wallet.uiBalance,
                    error |-> wallet.error,
                    previousBalance |-> IF prev = None THEN Undefined ELSE prev.uiBalance,
                    balanceHistory |->
                      LastN(IF prev = None THEN <<>> ELSE prev.balanceHistory, HISTORY_KEEP)
                        \o <<[balance |-> wallet.uiBalance, timestamp |-> ts_]>>,
                    firstSeen |-> IF prev = None THEN ts_ ELSE prev.firstSeen,
                    lastUpdated |-> ts_]
      IN  IF i = 0 THEN Append(ws_, entry) ELSE [ws_ EXCEPT ![i] = entry]
  IN
      IF balances = <<>> THEN ws
      ELSE CHOOSE r \in {MergeWallets(next, Tail(balances), ts) :
                          next \in {MergeWallet(ws, Head(balances), ts)}} : TRUE

\* wallets of the cached record of a token (cache[tokenMint]?.wallets || [])
CachedWalletsMutant(cache, tokenMint) == <<>>

CachedWallets(cache, tokenMint) ==
  IF cache[tokenMint] = None THEN <<>> ELSE cache[tokenMint].wallets

\* Cache duration settings of the data cache (CACHE_TTL), in seconds
CACHE_TTL_TOKEN_METADATA == 86400
CACHE_TTL_TOKEN_PRICE == 60
CACHE_TTL_WALLET_BALANCE == 120
CACHE_TTL_TRANSACTIONS == 30

\* getStaleWallets(tokenMint, allWallets, maxAge): the accounts that have no
\* cached entry (cachedMap.get, the last entry of an address) or whose entry
\* has age > maxAge
getStaleWalletsMutant(cache, tokenMint, allWallets, maxAge) ==
  LET cached == CachedWallets(cache, tokenMint)
      NeedsFetch(address) ==
        \E j \in DOMAIN cached :
           /\ cached[j].address = address
           /\ (now - cached[j].lastUpdated) > maxAge
  IN  SelectSeq(allWallets, NeedsFetch)

getStaleWallets(cache, tokenMint, allWallets, maxAge) ==
  LET cached == CachedWallets(cache, tokenMint)
      NeedsFetch(address) ==
        LET hits == {j \in DOMAIN cached : cached[j].address = address}
        IN  IF hits = {} THEN TRUE
            ELSE (now - cached[CHOOSE j \in hits : \A l \in hits : l <= j].lastUpdated)
                   > maxAge
  IN  SelectSeq(allWallets, NeedsFetch)

\* cacheWalletBalances(tokenMint, balances): the balance record it saves
cacheWalletBalancesMutant(cache, tokenMint, balances, ts) ==
  [t \in Assets |->
     IF t = tokenMint
     THEN [wallets |-> MergeWallets(CachedWallets(cache, tokenMint), balances, ts),
           lastSync |-> ts]
     ELSE None]

cacheWalletBalances(cache, tokenMint, balances, ts) ==
  [cache EXCEPT ![tokenMint] =
     [wallets |-> MergeWallets(CachedWallets(cache, tokenMint), balances, ts),
      lastSync |-> ts]]

\* transactions of the cached record of a token
CachedTxs(cache, tokenMint) ==
  IF cache[tokenMint] = None THEN <<>> ELSE cache[tokenMint].transactions

\* const uniqueNew = newTransactions.filter(tx => !existingSignatures.has(tx.signature))
uniqueNewMutant(existing, newTransactions) == newTransactions

uniqueNew(existing, newTransactions) ==
  LET existingSignatures == {existing[i].signature : i \in DOMAIN existing}
      Unseen(tx) == tx.signature \notin existingSignatures
  IN  SelectSeq(newTransactions, Unseen)

\* const merged = [...uniqueNew, ...existing].sort(...)
mergedMutant(existing, newTransactions) == uniqueNew(existing, newTransactions) \o existing

merged(existing, newTransactions) ==
  SortByTimestampDesc(uniqueNew(existing, newTransactions) \o existing)

\* cacheTransactions(tokenMint, newTransactions): the transaction record it saves
cacheTransactions(cache, tokenMint, newTransactions, ts) ==
  CHOOSE r \in
    {[cache EXCEPT ![tokenMint] =
        [transactions |-> m,
         lastSync |-> ts,
         newestSignature |-> IF m = <<>> THEN NULL ELSE m[1].signature,
         oldestSignature |-> IF m = <<>> THEN NULL ELSE m[Len(m)].signature]] :
     m \in {merged(CachedTxs(cache, tokenMint), newTransactions)}} : TRUE

\* getNewestTransactionTime(tokenMint)
getNewestTransactionTime(cache, tokenMint) ==
  IF CachedTxs(cache, tokenMint) = <<>> THEN Undefined
  ELSE CachedTxs(cache, tokenMint)[1].timestamp

\* cacheTokenMetadata(tokenMint, metadata): the metadata record it saves
cacheTokenMetadata(cache, tokenMint, metadata, ts) ==
  [cache EXCEPT ![tokenMint] =
     [metadata |-> [name |-> metadata, cachedAt |-> ts], lastSync |-> ts]]

\* cacheTokenPrice(tokenMint, price): the price record it saves
cacheTokenPrice(cache, tokenMint, price, ts) ==
  LET history == IF cache[tokenMint] = None THEN <<>> ELSE cache[tokenMint].priceHistory
  IN  [cache EXCEPT ![tokenMint] =
         [currentPrice |-> price,
          priceHistory |-> LastN(history, PRICE_HISTORY_KEEP)
                             \o <<[price |-> price, timestamp |-> ts]>>,
          lastSync |-> ts]]

\* delete cache[tokenMint]
DeleteKeyMutant(cache, tokenMint) == cache

DeleteKey(cache, tokenMint) == [cache EXCEPT ![tokenMint] = None]

\* getInstantLoadData(tokenMint): what the four getCached* readers and isStale
\* report from the stored records. A reader that finds no record returns no
\* isStale field ("undefined"); getCachedTransactions never returns one and
\* getInstantLoadData calls isStale on its lastSync (null when no record).
getInstantLoadData(tokenMint) ==
  LET Report(cache, ttl) ==
        IF cache[tokenMint] = None THEN "undefined"
        ELSE IF isStale(cache[tokenMint].lastSync, ttl) THEN "stale" ELSE "fresh"
      balances == CachedWallets(balanceCache, tokenMint)
      transfers == CachedTxs(txCache, tokenMint)
  IN  [hasData |-> \/ Len(balances) > 0
                   \/ Len(transfers) > 0
                   \/ metaCache[tokenMint] # None,
       walletData |-> balances,
       transactions |-> transfers,
       tokenInfo |-> IF metaCache[tokenMint] = None THEN NULL
                     ELSE metaCache[tokenMint].metadata.name,
       staleness |->
         [balances |-> Report(balanceCache, CACHE_TTL_WALLET_BALANCE),
          transactions |->
            IF isStale(IF txCache[tokenMint] = None THEN Undefined
                       ELSE txCache[tokenMint].lastSync, CACHE_TTL_TRANSACTIONS)
            THEN "stale" ELSE "fresh",
          metadata |-> Report(metaCache, CACHE_TTL_TOKEN_METADATA),
          price |-> Report(priceCache, CACHE_TTL_TOKEN_PRICE)]]

\* ------------------------------------------------------------------------
\* Sync Cache: inputs of the merges
\* ------------------------------------------------------------------------
\* the classified transfers the ledger can yield: s1 moved tokens from w1 to
\* w2 (reported once per watched wallet), s2 touched w1 and s3 touched w2
Transfer(s, w) == [signature |-> s, timestamp |-> SigTime[s], walletAddress |-> w]

\* a transfer whose signature carries no blockTime:
\* txTimestamp = sig.blockTime ? new Date(...).toISOString() : null
Undated(s, w) == [signature |-> s, timestamp |-> Undefined, walletAddress |-> w]

\* lists a fetch can hand to cacheTransactions (allTxResults.flat())
IncomingTransfers ==
  {<<>>,
   <<Transfer("s1", "w1")>>,
   <<Transfer("s2", "w1")>>,
   <<Transfer("s3", "w2")>>,
   <<Transfer("s1", "w1"), Transfer("s1", "w2")>>,
   <<Transfer("s2", "w1"), Transfer("s1", "w1")>>,
   <<Undated("s4", "w2")>>}

\* one result of batchGetBalances: { address, ...balance }; error is set only
\* by the paths that return { balance: 0, decimals: 9, uiBalance: 0, error }
Balance(w, b) == [address |-> w, uiBalance |-> b, error |-> NULL]

\* lists a fetch can hand to cacheWalletBalances
IncomingBalances ==
  {<<Balance("w1", 5)>>,
   <<Balance("w1", 0)>>,
   <<Balance("w2", 5)>>,
   <<Balance("w1", 5), Balance("w2", 0)>>,
   <<[Balance("w1", 0) EXCEPT !.error = "RPC request failed"]>>}

MetadataValues == {"m1", "m2"}
PriceValues == {1, 2}

\* the latest call of a cache operation: its name, its arguments, the value
\* cacheTransactions returned, and whether it repeats the call before it
Call(op, tokenMint) ==
  [op |-> op, tokenMint |-> tokenMint, newTransactions |-> <<>>,
   added |-> 0, total |-> 0, repeated |-> FALSE, staleWallets |-> <<>>, balances |-> <<>>]

NoCall == Call("none", NULL)

CacheInit ==
  /\ balanceCache = [t \in Assets |-> None]
  /\ txCache = [t \in Assets |-> None]
  /\ metaCache = [t \in Assets |-> None]
  /\ priceCache = [t \in Assets |-> None]
  /\ syncState = [t \in Assets |-> None]
  /\ now = 0
  /\ opCount = 0
  /\ lastCall = NoCall

\* ------------------------------------------------------------------------
\* Sync Cache: one action per exported operation
\* ------------------------------------------------------------------------
CacheWalletBalances(tokenMint, balances) ==
  /\ opCount < MaxOps
  /\ balanceCache' = cacheWalletBalances(balanceCache, tokenMint, balances, now)
  /\ syncState' = updateSyncState(syncState, tokenMint, "balances", now)
  /\ opCount' = opCount + 1
  /\ lastCall' = [Call("cacheWalletBalances", tokenMint) EXCEPT !.balances = balances]
  /\ UNCHANGED <<txCache, metaCache, priceCache, now>>
  /\ UNCHANGED <<unitVars, gwVars, orchVars>>

CacheTransactions(tokenMint, newTransactions) ==
  LET
    \* the value cacheTransactions returns: { added, total }
    cacheTransactionsResult(cache, tokenMint_, newTransactions_) ==
      [added |-> Len(uniqueNew(CachedTxs(cache, tokenMint_), newTransactions_)),
       total |-> Len(merged(CachedTxs(cache, tokenMint_), newTransactions_))]
  IN
      /\ opCount < MaxOps
      /\ txCache' = cacheTransactions(txCache, tokenMint, newTransactions, now)
      /\ syncState' = updateSyncState(syncState, tokenMint, "transactions", now)
      /\ opCount' = opCount + 1
      /\ lastCall' =
           [op |-> "cacheTransactions",
            tokenMint |-> tokenMint,
            newTransactions |-> newTransactions,
            added |-> cacheTransactionsResult(txCache, tokenMint, newTransactions).added,
            total |-> cacheTransactionsResult(txCache, tokenMint, newTransactions).total,
            repeated |-> /\ lastCall.op = "cacheTransactions"
                         /\ lastCall.tokenMint = tokenMint
                         /\ lastCall.newTransactions = newTransactions,
            staleWallets |-> <<>>,
            balances |-> <<>>]
      /\ UNCHANGED <<balanceCache, metaCache, priceCache, now>>
      /\ UNCHANGED <<unitVars, gwVars, orchVars>>

CacheTokenMetadata(tokenMint, metadata) ==
  /\ opCount < MaxOps
  /\ metaCache' = cacheTokenMetadata(metaCache, tokenMint, metadata, now)
  /\ opCount' = opCount + 1
  /\ lastCall' = Call("cacheTokenMetadata", tokenMint)
  /\ UNCHANGED <<balanceCache, txCache, priceCache, syncState, now>>
  /\ UNCHANGED <<unitVars, gwVars, orchVars>>

CacheTokenPrice(tokenMint, price) ==
  /\ opCount < MaxOps
  /\ priceCache' = cacheTokenPrice(priceCache, tokenMint, price, now)
  /\ opCount' = opCount + 1
  /\ lastCall' = Call("cacheTokenPrice", tokenMint)
  /\ UNCHANGED <<balanceCache, txCache, metaCache, syncState, now>>
  /\ UNCHANGED <<unitVars, gwVars, orchVars>>

\* clearTokenCache(tokenMint): the five deletes run in one synchronous call
ClearTokenCache(tokenMint) ==
  /\ opCount < MaxOps
  /\ balanceCache' = DeleteKey(balanceCache, tokenMint)
  /\ txCache' = DeleteKey(txCache, tokenMint)
  /\ metaCache' = DeleteKey(metaCache, tokenMint)
  /\ priceCache' = DeleteKey(priceCache, tokenMint)
  /\ syncState' = DeleteKey(syncState, tokenMint)
  /\ opCount' = opCount + 1
  /\ lastCall' = Call("clearTokenCache", tokenMint)
  /\ UNCHANGED now
  /\ UNCHANGED <<unitVars, gwVars, orchVars>>

\* a reader of the cache is called: getInstantLoadData(tokenMint) only reads
\* the stored records
GetInstantLoadData(tokenMint) ==
  /\ opCount < MaxOps
  /\ opCount' = opCount + 1
  /\ lastCall' = Call("getInstantLoadData", tokenMint)
  /\ UNCHANGED <<cacheVars, now>>
  /\ UNCHANGED <<unitVars, gwVars, orchVars>>

\* getStaleWallets(tokenMint, allWallets) is called with the default maxAge;
\* it only reads the stored balance record
GetStaleWallets(tokenMint, allWallets) ==
  /\ opCount < MaxOps
  /\ opCount' = opCount + 1
  /\ lastCall' =
       [Call("getStaleWallets", tokenMint) EXCEPT
          !.staleWallets = getStaleWallets(balanceCache, tokenMint, allWallets,
                                           CACHE_TTL_WALLET_BALANCE)]
  /\ UNCHANGED <<cacheVars, now>>
  /\ UNCHANGED <<unitVars, gwVars, orchVars>>

\* the clock advances, while it has not passed MaxClock: by one second, or to
\* a cache duration or one second past it
Tick ==
  /\ opCount < MaxOps
  /\ now < MaxClock
  /\ \E t \in {1} \cup UNION {{ttl, ttl + 1} :
                     ttl \in {CACHE_TTL_TRANSACTIONS, CACHE_TTL_TOKEN_PRICE,
                              CACHE_TTL_WALLET_BALANCE, CACHE_TTL_TOKEN_METADATA}} :
       /\ now < t
       /\ now' = t
  /\ opCount' = opCount + 1
  /\ lastCall' = NoCall
  /\ UNCHANGED cacheVars
  /\ UNCHANGED <<unitVars, gwVars, orchVars>>

\* ------------------------------------------------------------------------
\* Transfer Classifier: parseTokenTransfer(tx, walletAddress, tokenMint)
\* ------------------------------------------------------------------------
\* String.prototype.toLowerCase on the addresses of the model
toLowerCase(a) ==
  CASE a = "W1" -> "w1"
    [] a = "W2" -> "w2"
    [] a = "A"  -> "a"
    [] a = "B"  -> "b"
    [] OTHER    -> a

\* bal.uiTokenAmount?.decimals || 9
DEFAULT_DECIMALS == 9
DecimalsOrDefault(d) == IF d = 0 \/ d = Undefined THEN DEFAULT_DECIMALS ELSE d

\* Number(bal.uiTokenAmount?.amount || 0)
AmountOrZero(a) == IF a = Undefined THEN 0 ELSE a

\* bal.mint && bal.mint.toLowerCase() === mintNormalized.toLowerCase() && bal.owner
BalanceMatches(bal, tokenMint) ==
  /\ bal.mint # NULL
  /\ toLowerCase(bal.mint) = toLowerCase(tokenMint)
  /\ bal.owner # NULL

\* position of a key in the walletChanges map (insertion order), 0 when absent
IndexOfKey(changes, key) ==
  IF \E i \in DOMAIN changes : changes[i].key = key
  THEN CHOOSE i \in DOMAIN changes : changes[i].key = key
  ELSE 0

RECURSIVE WalletChangesPre(_, _, _)
WalletChangesPre(changes, bals, tokenMint) ==
  LET
    \* walletChanges.set(ownerKey, ...) of the pre-balance loop
    SetPre(changes_, bal) ==
      LET key == toLowerCase(bal.owner)
          i == IndexOfKey(changes_, key)
          entry == [key |-> key,
                    pre |-> AmountOrZero(bal.amount),
                    post |-> IF i = 0 THEN 0 ELSE changes_[i].post,
                    decimals |-> DecimalsOrDefault(bal.decimals),
                    address |-> bal.owner]
      IN  IF i = 0 THEN Append(changes_, entry) ELSE [changes_ EXCEPT ![i] = entry]
  IN
      IF bals = <<>> THEN changes
      ELSE WalletChangesPre(
             IF BalanceMatches(Head(bals), tokenMint) THEN SetPre(changes, Head(bals)) ELSE changes,
             Tail(bals), tokenMint)

RECURSIVE WalletChangesPost(_, _, _)
WalletChangesPost(changes, bals, tokenMint) ==
  LET
    \* walletChanges.set(ownerKey, { ...existing, post: amount }) of the post-balance loop
    SetPost(changes_, bal) ==
      LET key == toLowerCase(bal.owner)
          i == IndexOfKey(changes_, key)
          existing == IF i = 0
                      THEN [key |-> key, pre |-> 0, decimals |-> DEFAULT_DECIMALS,
                            address |-> bal.owner]
                      ELSE [key |-> key, pre |-> changes_[i].pre,
                            decimals |-> changes_[i].decimals, address |-> changes_[i].address]
          entry == [key |-> key, pre |-> existing.pre, post |-> AmountOrZero(bal.amount),
                    decimals |-> existing.decimals, address |-> existing.address]
      IN  IF i = 0 THEN Append(changes_, entry) ELSE [changes_ EXCEPT ![i] = entry]
  IN
      IF bals = <<>> THEN changes
      ELSE WalletChangesPost(
             IF BalanceMatches(Head(bals), tokenMint) THEN SetPost(changes, Head(bals)) ELSE changes,
             Tail(bals), tokenMint)

\* the walletChanges map after both loops
walletChanges(tx, tokenMint) ==
  WalletChangesPost(WalletChangesPre(<<>>, tx.preTokenBalances, tokenMint),
                    tx.postTokenBalances, tokenMint)

\* the balances of the list that belong to the watched wallet and the mint
OwnBalances(bals, walletAddress, tokenMint) ==
  LET Own(bal) == /\ BalanceMatches(bal, tokenMint)
                  /\ toLowerCase(bal.owner) = toLowerCase(walletAddress)
  IN  SelectSeq(bals, Own)

\* foundMint
foundMint(tx, tokenMint) ==
  \/ \E i \in DOMAIN tx.preTokenBalances : BalanceMatches(tx.preTokenBalances[i], tokenMint)
  \/ \E i \in DOMAIN tx.postTokenBalances : BalanceMatches(tx.postTokenBalances[i], tokenMint)

\* const tokenChange = postAmount - preAmount
tokenChange(tx, walletAddress, tokenMint) ==
  LET
    \* preAmount / postAmount: the last matching balance of the list wins, 0 when none
    OwnAmount(bals, walletAddress_, tokenMint_) ==
      LET own == OwnBalances(bals, walletAddress_, tokenMint_)
      IN  IF own = <<>> THEN 0 ELSE AmountOrZero(own[Len(own)].amount)
  IN
      OwnAmount(tx.postTokenBalances, walletAddress, tokenMint)
        - OwnAmount(tx.preTokenBalances, walletAddress, tokenMint)

\* solChange (lamports) of the first account key that is the watched wallet,
\* 0 when the wallet is not among the account keys
solChange(tx, walletAddress) ==
  LET
    \* preBalances[i] || 0
    LamportsAt(bals, i) == IF i \in DOMAIN bals THEN bals[i] ELSE 0
  IN
      LET hits == {i \in DOMAIN tx.accountKeys :
                     /\ tx.accountKeys[i] # NULL
                     /\ toLowerCase(tx.accountKeys[i]) = toLowerCase(walletAddress)}
      IN  IF hits = {} THEN 0
          ELSE LET i == CHOOSE k \in hits : \A j \in hits : k <= j
               IN  LamportsAt(tx.postBalances, i) - LamportsAt(tx.preBalances, i)

LAMPORTS_PER_SOL == 1000000000

\* solChangeInSol > 0.001, with solChangeInSol = solChange / 1e9 (the quotient
\* of 1,000,000 lamports is the double 0.001 itself, so the comparison is the
\* exact one on lamports)
IsSellMutant(lamports) == lamports >= LAMPORTS_PER_SOL \div 1000

IsSell(lamports) == lamports > LAMPORTS_PER_SOL \div 1000

\* solChangeInSol < -0.01
IsBuy(lamports) == lamports < 0 - (LAMPORTS_PER_SOL \div 100)

\* Math.abs(tokenChange)
AbsMutant(n) == n

Abs(n) == IF n < 0 THEN 0 - n ELSE n

RECURSIVE Pow10(_)
Pow10(d) == IF d = 0 THEN 1 ELSE 10 * Pow10(d - 1)

\* parseTokenTransfer(tx, walletAddress, tokenMint); the amount is the exact
\* quotient rawAmount / 10^decimals, kept as numerator and denominator
parseTokenTransfer(tx, walletAddress, tokenMint) ==
  LET
    \* decimals: set by the last matching pre- or post-balance, 9 when none
    OwnDecimals(tx_, walletAddress_, tokenMint_) ==
      LET pre == OwnBalances(tx_.preTokenBalances, walletAddress_, tokenMint_)
          post == OwnBalances(tx_.postTokenBalances, walletAddress_, tokenMint_)
      IN  IF post # <<>> THEN DecimalsOrDefault(post[Len(post)].decimals)
          ELSE IF pre # <<>> THEN DecimalsOrDefault(pre[Len(pre)].decimals)
          ELSE DEFAULT_DECIMALS
    \* first other wallet of the map whose token balance moved the given way
    \* (up = TRUE: increased, the destination; up = FALSE: decreased, the source)
    Counterparty(changes, walletAddress_, up) ==
      LET hits == {i \in DOMAIN changes :
                     /\ changes[i].key # toLowerCase(walletAddress_)
                     /\ IF up THEN changes[i].post - changes[i].pre > 0
                              ELSE changes[i].post - changes[i].pre < 0}
      IN  IF hits = {} THEN NULL
          ELSE changes[CHOOSE k \in hits : \A j \in hits : k <= j].address
    \* the try block throws a TypeError: tx is null (tx.meta), or an entry of a
    \* token-balance table is null (bal.mint)
    Throws ==
      \/ tx = None
      \/ \E i \in DOMAIN tx.preTokenBalances : tx.preTokenBalances[i] = None
      \/ \E i \in DOMAIN tx.postTokenBalances : tx.postTokenBalances[i] = None
  IN
      \* catch (error) { return null }
      IF Throws THEN None
      ELSE IF tx.preTokenBalances = <<>> /\ tx.postTokenBalances = <<>> THEN None
      ELSE IF ~foundMint(tx, tokenMint) THEN None
      ELSE IF tokenChange(tx, walletAddress, tokenMint) = 0 THEN None
      ELSE
        LET change == tokenChange(tx, walletAddress, tokenMint)
            sol == solChange(tx, walletAddress)
            decimals == OwnDecimals(tx, walletAddress, tokenMint)
            changes == walletChanges(tx, tokenMint)
        IN  [type |-> IF change < 0
                      THEN (IF IsSell(sol) THEN "SELL" ELSE "TRANSFER_OUT")
                      ELSE (IF IsBuy(sol) THEN "BUY" ELSE "TRANSFER_IN"),
             amount |-> [num |-> Abs(change), den |-> Pow10(decimals)],
             rawAmount |-> Abs(change),
             decimals |-> decimals,
             toWallet |-> IF change < 0 THEN Counterparty(changes, walletAddress, TRUE) ELSE NULL,
             fromWallet |-> IF change < 0 THEN NULL ELSE Counterparty(changes, walletAddress, FALSE),
             solChange |-> sol]

MaxBalEntries == 2   \* entries of a pre- or post-token-balance table

\* the watch set of a fresh hook: useState([]) and nothing stored
WatchIdle ==
  /\ walletList = <<>>
  /\ storedWallets = <<>>
  /\ savedProject = None
  /\ nextWalletId = 0
  /\ watchOps = 0

\* no pair of merges is under way
MergeIdle ==
  /\ mgIn = None
  /\ mgAB = None
  /\ mgBA = None

\* no cycle's progress reports are followed
ProgressIdle ==
  /\ progN = 0
  /\ progSt = None

\* no call of getWalletTransactions is under way
PagingIdle ==
  /\ fetchIn = None
  /\ fetchSt = None

\* no gateway call is under way
BatchIdle ==
  /\ bIn = None
  /\ bPc = "idle"
  /\ bI = 0
  /\ bOutstanding = {}
  /\ bGroup = <<>>
  /\ bResults = <<>>
  /\ bProgress = <<>>
  /\ bRequests = {}
  /\ bDispatched = <<>>
  /\ bWaits = <<>>

\* no status evaluation is under way
StatusIdle ==
  /\ stInput = None
  /\ stResult = NULL
  /\ stDone = FALSE

ClassifierIdle ==
  /\ clsInput = None
  /\ clsResult = None
  /\ clsDone = FALSE

ClassifierInit ==
  LET
    \* token balances a transaction can report, all with the decimals d
    TokenBalanceEntries(d) ==
      {[mint |-> "A", owner |-> o, amount |-> a, decimals |-> d] :
          o \in {"w1", "w2"}, a \in {1, 2}}
        \cup {[mint |-> "B", owner |-> "w1", amount |-> 1, decimals |-> d]}
    TokenBalanceLists(d) ==
      UNION {[1..k -> TokenBalanceEntries(d)] : k \in 0..MaxBalEntries}
    \* lamport deltas around the two thresholds (0.001 SOL and -0.01 SOL)
    LamportDeltas ==
      {0 - (LAMPORTS_PER_SOL \div 100) - 1, 0 - (LAMPORTS_PER_SOL \div 100), 0,
       LAMPORTS_PER_SOL \div 1000, (LAMPORTS_PER_SOL \div 1000) + 1}
    \* the SOL side of a transaction: the watched wallet is the second account
    \* key (holding 1 SOL before), or is not among the account keys at all
    SolSides ==
      {[accountKeys |-> <<"w2", "W1">>,
        preBalances |-> <<0, LAMPORTS_PER_SOL>>,
        postBalances |-> <<0, LAMPORTS_PER_SOL + d>>] : d \in LamportDeltas}
        \cup {[accountKeys |-> <<"w2">>, preBalances |-> <<0>>, postBalances |-> <<5>>]}
    \* decimals a transaction reports for the mint
    DecimalsValues == {0, 6}
    \* the call parseTokenTransfer(tx, "w1", "A") on one raw transaction
    ClassifierInput(pre, post, sol) ==
      [tx |-> [preTokenBalances |-> pre, postTokenBalances |-> post,
               accountKeys |-> sol.accountKeys, preBalances |-> sol.preBalances,
               postBalances |-> sol.postBalances],
       walletAddress |-> "w1",
       tokenMint |-> "A"]
    \* raw transactions that make the parser throw: getParsedTransaction
    \* answered null, or a token-balance table holds a null entry
    Malformed ==
      {None}
        \cup {ClassifierInput(pre, post, sol).tx :
                pre \in {<<None>>, <<>>},
                post \in {<<[mint |-> "A", owner |-> "w1", amount |-> 1, decimals |-> 6], None>>},
                sol \in SolSides}
  IN
      /\ \/ \E d \in DecimalsValues :
              \E pre \in TokenBalanceLists(d), post \in TokenBalanceLists(d), sol \in SolSides :
                clsInput = ClassifierInput(pre, post, sol)
         \/ \E tx \in Malformed :
              clsInput = [tx |-> tx, walletAddress |-> "w1", tokenMint |-> "A"]
      /\ clsResult = None
      /\ clsDone = FALSE

\* one call of parseTokenTransfer
Classify ==
  /\ ~clsDone
  /\ clsResult' = parseTokenTransfer(clsInput.tx, clsInput.walletAddress, clsInput.tokenMint)
  /\ clsDone' = TRUE
  /\ UNCHANGED clsInput
  /\ UNCHANGED <<cacheSpecVars, statusVars, batchVars, watchVars, mergeVars, pageVars, progressVars, gwVars, orchVars>>

\* ------------------------------------------------------------------------
\* Ledger Gateway: response cache and de-duplication of in-flight requests
\* ------------------------------------------------------------------------
MaxRequests == 3     \* remote requests issued per behaviour of SpecGateway

\* CACHE_TTL of the gateway, in seconds
CACHE_TTL_walletBalance == 15
CACHE_TTL_tokenPrice == 30

\* addresses handed to the gateway; "bad!" fails the Base58 format check
GatewayAddresses == {"w1", "w2", "bad!"}

\* isValidAddress(address)
isValidAddress(address) == address # NULL /\ address # "bad!"

\* `balance:${walletAddress}:${tokenMint}` and `dexscreener:${tokenMint}`
BalanceKey(walletAddress, tokenMint) == <<"balance", walletAddress, tokenMint>>
DexKey(tokenMint) == <<"dexscreener", "-", tokenMint>>

GatewayKeys ==
  {BalanceKey(w, "A") : w \in {"w1", "w2"}} \cup {DexKey("A")}

NoPromise == 0

\* getCached(key, ttl): the cached data, None when absent or expired
getCachedMutant(key, ttl) ==
  IF gwCache[key] # None /\ now - gwCache[key].timestamp <= ttl
  THEN gwCache[key].data
  ELSE None

getCached(key, ttl) ==
  IF gwCache[key] # None /\ now - gwCache[key].timestamp < ttl
  THEN gwCache[key].data
  ELSE None

\* setCache(key, data)
setCache(key, data) == [gwCache EXCEPT ![key] = [data |-> data, timestamp |-> now]]

Served(key, how, request) == [key |-> key, how |-> how, request |-> request]

GatewayInit ==
  /\ gwCache = [k \in GatewayKeys |-> None]
  /\ pendingRequests = [k \in GatewayKeys |-> NoPromise]
  /\ inFlight = {}
  /\ issued = 0
  /\ lastGw = Served(<<>>, "none", NoPromise)

\* deduplicatedFetch(key, fetchFn): join the pending promise of the key, or
\* start fetchFn (which issues the remote request) and register its promise
deduplicatedFetch(key) ==
  IF pendingRequests[key] # NoPromise
  THEN /\ lastGw' = Served(key, "pending", pendingRequests[key])
       /\ UNCHANGED <<gwCache, pendingRequests, inFlight, issued>>
  ELSE /\ issued < MaxRequests
       /\ issued' = issued + 1
       /\ inFlight' = inFlight \cup {[id |-> issued + 1, key |-> key]}
       /\ pendingRequests' = [pendingRequests EXCEPT ![key] = issued + 1]
       /\ lastGw' = Served(key, "fetch", issued + 1)
       /\ UNCHANGED gwCache

\* a call of getTokenBalance(connection, walletAddress, tokenMint), up to its
\* first await
GetTokenBalance(walletAddress, tokenMint) ==
  /\ IF ~isValidAddress(walletAddress) \/ ~isValidAddress(tokenMint)
     THEN /\ lastGw' = Served(<<>>, "invalid", NoPromise)
          /\ UNCHANGED <<gwCache, pendingRequests, inFlight, issued>>
     ELSE IF getCached(BalanceKey(walletAddress, tokenMint), CACHE_TTL_walletBalance) # None
     THEN /\ lastGw' = Served(BalanceKey(walletAddress, tokenMint), "cache", NoPromise)
          /\ UNCHANGED <<gwCache, pendingRequests, inFlight, issued>>
     ELSE deduplicatedFetch(BalanceKey(walletAddress, tokenMint))
  /\ UNCHANGED <<cacheSpecVars, unitVars, orchVars>>

\* a call of fetchDexScreenerData(tokenMint), up to its first await
FetchDexScreenerData(tokenMint) ==
  /\ IF getCached(DexKey(tokenMint), CACHE_TTL_tokenPrice) # None
     THEN /\ lastGw' = Served(DexKey(tokenMint), "cache", NoPromise)
          /\ UNCHANGED <<gwCache, pendingRequests, inFlight, issued>>
     ELSE deduplicatedFetch(DexKey(tokenMint))
  /\ UNCHANGED <<cacheSpecVars, unitVars, orchVars>>

\* a remote request settles: a successful answer is cached under the key of
\* the request, then the .finally handler deletes the key's pending entry
RequestSettles(r, ok) ==
  /\ r \in inFlight
  /\ inFlight' = inFlight \ {r}
  /\ gwCache' = IF ok THEN setCache(r.key, [answerOf |-> r.id]) ELSE gwCache
  /\ pendingRequests' = [pendingRequests EXCEPT ![r.key] = NoPromise]
  /\ UNCHANGED <<issued, lastGw>>
  /\ UNCHANGED <<cacheSpecVars, unitVars, orchVars>>

\* clearCache(): cache.clear(); pendingRequests.clear()
ClearCache ==
  /\ gwCache' = [k \in GatewayKeys |-> None]
  /\ pendingRequests' = [k \in GatewayKeys |-> NoPromise]
  /\ UNCHANGED <<inFlight, issued, lastGw>>
  /\ UNCHANGED <<cacheSpecVars, unitVars, orchVars>>

\* the clock advances to the second before the end of a cache window or to
\* its end
GatewayTick ==
  /\ now < MaxClock * CACHE_TTL_tokenPrice
  /\ \E t \in UNION {{ttl - 1, ttl} :
                     ttl \in {CACHE_TTL_walletBalance, CACHE_TTL_tokenPrice}} :
       /\ now < t
       /\ now' = t
  /\ UNCHANGED <<cacheVars, opCount, lastCall, gwVars, unitVars, orchVars>>

\* ------------------------------------------------------------------------
\* Sync Orchestrator (useWalletTracker): the tracked asset, the watch list
\* and what the remote services answer
\* ------------------------------------------------------------------------
MaxStarts == 2       \* refresh cycles started per behaviour

Cycles == 1..MaxStarts

tokenMint == "A"
wallets == <<"w1", "w2", "w3", "w4">>

\* isValidSolanaAddress(address)
isValidSolanaAddress(address) == address # NULL /\ address # "bad!"

\* const validWallets = wallets.filter(w => isValidSolanaAddress(w.address))
validWallets == SelectSeq(wallets, isValidSolanaAddress)

\* const hasApiKey = settings.heliusApiKey && settings.heliusApiKey.trim() !== ''
hasApiKey == heliusApiKey # ""

\* HELIUS_RATE_LIMIT.batchSize or 3 accounts per balance group
BATCH_SIZE == IF hasApiKey THEN 5 ELSE 3

\* accounts per transaction batch
TX_BATCH_SIZE == IF hasApiKey THEN 3 ELSE 2

\* getWalletTransactions(connection, walletAddress, tokenMint, ..., sinceTimestamp,
\* knownSignatures) over one page of signatures: signatures older than
\* sinceTimestamp are dropped once the page reaches them, known signatures are
\* skipped, each remaining one is classified as a transfer of the wallet
TransfersOfPage(signatures, walletAddress, sinceTimestamp, knownSignatures) ==
  LET IsNew(sig) == SigTime[sig] >= sinceTimestamp
      NotKnown(sig) == sig \notin knownSignatures
      page == IF /\ sinceTimestamp # Undefined
                 /\ signatures # <<>>
                 /\ SigTime[signatures[Len(signatures)]] < sinceTimestamp
              THEN SelectSeq(signatures, IsNew)
              ELSE signatures
      filtered == SelectSeq(page, NotKnown)
  IN  [k \in 1..Len(filtered) |-> Transfer(filtered[k], walletAddress)]

getWalletTransactions(walletAddress, sinceTimestamp, knownSignatures) ==
  LET
    \* the signatures the ledger lists for each watched account, newest first
    RemoteSignatures ==
      [w \in Range(wallets) |->
         CASE w = "w1" -> <<"s2", "s1">>
           [] w = "w2" -> <<"s3", "s1">>
           [] OTHER    -> <<>>]
  IN
      TransfersOfPage(RemoteSignatures[walletAddress], walletAddress, sinceTimestamp,
                      knownSignatures)

\* Array.prototype.slice(from, to)
Slice(s, from, to) ==
  SubSeq(s, from + 1, IF to < Len(s) THEN to ELSE Len(s))

\* Math.round(num / den) for num >= 0, den > 0
Round(num, den) == (2 * num + den) \div (2 * den)

\* (await Promise.all(batch.map(getWalletTransactions))).flat()
RECURSIVE BatchTransfers(_, _, _)
BatchTransfers(batch, sinceTimestamp, knownSignatures) ==
  IF batch = <<>> THEN <<>>
  ELSE getWalletTransactions(Head(batch), sinceTimestamp, knownSignatures)
         \o BatchTransfers(Tail(batch), sinceTimestamp, knownSignatures)

\* the results batchGetBalances pushes for one group of accounts
BatchBalances(batch) ==
  LET
    \* the token balance the ledger reports for each watched account
    RemoteBalance == [w \in Range(wallets) |-> IF w = "w2" THEN 0 ELSE 5]
  IN
      [k \in 1..Len(batch) |-> Balance(batch[k], RemoteBalance[batch[k]])]

\* ------------------------------------------------------------------------
\* Sync Orchestrator: the state of one fetchData invocation
\* ------------------------------------------------------------------------
NoController == 0

\* the locals of a cycle that has not started or has ended
IdleCycle ==
  [showLoading |-> FALSE, forceRefresh |-> FALSE,
   aborted |-> FALSE, i |-> 0, results |-> <<>>, allTxResults |-> <<>>,
   isIncremental |-> FALSE, sinceTimestamp |-> Undefined,
   knownSignatures |-> {}]

\* where a cycle that is not running stands: not started, or how it ended
EndStates == {"done", "error", "cancelled"}

\* the awaits of fetchData
Positions ==
  {"token_info", "balance_group", "balance_delay", "token_metadata",
   "tx_batch", "tx_delay"}

InFlight(c) == pc[c] \in Positions

\* fetchData returns: the invocation and its locals are gone
End(c, outcome) ==
  /\ pc' = [pc EXCEPT ![c] = outcome]
  /\ cyc' = [cyc EXCEPT ![c] = IdleCycle]

NoStatus == [stage |-> NULL, progress |-> 0]
Status(stage, progress) == [stage |-> stage, progress |-> progress]

\* the refs and the state the entry, catch and finally blocks of fetchData touch
Hook ==
  [isFetching |-> isFetching, abortController |-> abortController,
   isLoading |-> isLoading, isRefreshing |-> isRefreshing,
   error |-> error, loadingStatus |-> loadingStatus,
   statusResets |-> statusResets]

SetHook(h) ==
  /\ isFetching' = h.isFetching
  /\ abortController' = h.abortController
  /\ isLoading' = h.isLoading
  /\ isRefreshing' = h.isRefreshing
  /\ error' = h.error
  /\ loadingStatus' = h.loadingStatus
  /\ statusResets' = h.statusResets

\* catch (err): a cancelled fetch returns without setting the error state
CatchMutant(h, message) ==
  [h EXCEPT !.error = message, !.loadingStatus = Status("error", 0)]

Catch(h, message) ==
  IF message = "Fetch cancelled" THEN h
  ELSE [h EXCEPT !.error = message, !.loadingStatus = Status("error", 0)]

\* finally: the indicators and the refs are cleared, the status reset is scheduled
FinallyMutant(h) == [h EXCEPT !.statusResets = @ + 1]

Finally(h) ==
  [h EXCEPT !.isLoading = FALSE, !.isRefreshing = FALSE, !.isFetching = FALSE,
            !.abortController = NoController, !.statusResets = @ + 1]

\* throw new Error(message) inside the try block
Throw(h, message) == Finally(Catch(h, message))

\* tokenMint and wallets as loaded from storage: both set
TargetSet == [tokenMint |-> TRUE, wallets |-> TRUE]

OrchestratorInit ==
  /\ pc = [c \in Cycles |-> "idle"]
  /\ cyc = [c \in Cycles |-> IdleCycle]
  /\ isFetching = FALSE
  /\ abortController = NoController
  /\ forceFullFetch = FALSE
  /\ isLoading = FALSE
  /\ isRefreshing = FALSE
  /\ error = NULL
  /\ loadingStatus = NoStatus
  /\ statusResets = 0
  /\ walletData = <<>>
  /\ transactions = <<>>
  /\ tokenInfo = NULL
  /\ storedWalletData = <<>>
  /\ storedTransactions = <<>>
  /\ started = 0
  /\ heliusApiKey = ""
  /\ target = TargetSet

\* ------------------------------------------------------------------------
\* Sync Orchestrator: fetchData(showLoading, forceRefresh), from its entry to
\* its first await
\* ------------------------------------------------------------------------
\* createConnection(settings.heliusApiKey) is the only call of the try block
\* that is not wrapped in a handler of its own; createConnectionThrows is
\* whether it throws in this invocation
FetchData(showLoading, forceRefresh, createConnectionThrows) ==
  LET c == started + 1
      entered == [Hook EXCEPT !.abortController = c,
                              !.isFetching = TRUE,
                              !.isLoading = IF showLoading THEN TRUE ELSE @,
                              !.isRefreshing = IF showLoading THEN @ ELSE TRUE,
                              !.error = NULL]
  IN  IF ~target.tokenMint \/ ~target.wallets \/ tokenMint = NULL \/ Len(wallets) = 0
      THEN UNCHANGED <<pc, cyc, isFetching, abortController, isLoading, isRefreshing,
                       error, loadingStatus, statusResets, started>>
      ELSE IF ~isValidSolanaAddress(tokenMint)
      THEN /\ error' = "Invalid token mint address"
           /\ UNCHANGED <<pc, cyc, isFetching, abortController, isLoading, isRefreshing,
                          loadingStatus, statusResets, started>>
      ELSE IF Len(validWallets) = 0
      THEN /\ error' = "No valid wallet addresses found"
           /\ UNCHANGED <<pc, cyc, isFetching, abortController, isLoading, isRefreshing,
                          loadingStatus, statusResets, started>>
      ELSE IF isFetching /\ ~forceRefresh
      THEN UNCHANGED <<pc, cyc, isFetching, abortController, isLoading, isRefreshing,
                       error, loadingStatus, statusResets, started>>
      ELSE /\ started' = c
           /\ IF createConnectionThrows
              THEN /\ SetHook(Throw(entered, "createConnection failed"))
                   /\ End(c, "error")
              ELSE /\ SetHook([entered EXCEPT !.loadingStatus = Status("token_info", 5)])
                   /\ pc' = [pc EXCEPT ![c] = "token_info"]
                   /\ cyc' = [cyc EXCEPT ![c] =
                                [IdleCycle EXCEPT !.showLoading = showLoading,
                                                  !.forceRefresh = forceRefresh]]

\* what a call of fetchData leaves alone before its first await
FetchDataFrame ==
  /\ UNCHANGED <<walletData, transactions, tokenInfo, storedWalletData,
                 storedTransactions, heliusApiKey, target>>
  /\ UNCHANGED <<cacheSpecVars, unitVars, gwVars>>

\* setInterval(() => fetchData(false), settings.refreshInterval * 1000)
TimerTick ==
  /\ started < MaxStarts
  /\ \E createConnectionThrows \in BOOLEAN :
       FetchData(FALSE, FALSE, createConnectionThrows)
  /\ UNCHANGED forceFullFetch
  /\ FetchDataFrame

\* the effect on [tokenMint, wallets.length, settings.refreshInterval, fetchData]:
\* fetchData(!hasCachedData)
RefreshEffect ==
  LET hasCachedData == Len(storedWalletData) > 0 \/ Len(storedTransactions) > 0
  IN  /\ started < MaxStarts
      /\ \E createConnectionThrows \in BOOLEAN :
           FetchData(~hasCachedData, FALSE, createConnectionThrows)
      /\ UNCHANGED forceFullFetch
      /\ FetchDataFrame

\* manualRefresh()
ManualRefresh ==
  /\ started < MaxStarts \/ isFetching
  /\ forceFullFetch' = TRUE
  /\ \E createConnectionThrows \in BOOLEAN :
       FetchData(TRUE, FALSE, createConnectionThrows)
  /\ FetchDataFrame

\* cancelFetch()
CancelFetch ==
  /\ cyc' = IF abortController # NoController
            THEN [cyc EXCEPT ![abortController].aborted = TRUE]
            ELSE cyc
  /\ abortController' = NoController
  /\ isFetching' = FALSE
  /\ isLoading' = FALSE
  /\ isRefreshing' = FALSE
  /\ loadingStatus' = NoStatus
  /\ UNCHANGED <<pc, forceFullFetch, error, statusResets, walletData, transactions,
                 tokenInfo, storedWalletData, storedTransactions, started,
                 heliusApiKey, target>>
  /\ UNCHANGED <<cacheSpecVars, unitVars, gwVars>>

\* the setTimeout(..., 500) callback scheduled by the finally block
StatusResetFires ==
  /\ statusResets > 0
  /\ statusResets' = statusResets - 1
  /\ loadingStatus' = Status(NULL, 100)
  /\ UNCHANGED <<pc, cyc, isFetching, abortController, forceFullFetch, isLoading,
                 isRefreshing, error, walletData, transactions, tokenInfo,
                 storedWalletData, storedTransactions, started, heliusApiKey, target>>
  /\ UNCHANGED <<cacheSpecVars, unitVars, gwVars>>

\* ------------------------------------------------------------------------
\* Sync Orchestrator: fetchData resumed after each await. Of the state the
\* hook sets, previousBalances, initialBalances, tokenMetadata, lastUpdated and
\* the project record (activeProjectId is null) are not represented: no other
\* part of fetchData or cancelFetch reads them.
\* ------------------------------------------------------------------------

\* const info = await getTokenInfo(tokenMint) has resolved
TokenInfoReturns(c) ==
  LET
    \* what getTokenInfo and getTokenMetadata resolve to for the tracked asset
    TokenInfoName == "m1"
    TokenInfoPrice == 1
    \* validWallets.map(wallet => ({ ...wallet, status: 'pending', uiBalance: 0 }))
    initialPendingWallets ==
      [k \in 1..Len(validWallets) |->
         [address |-> validWallets[k], status |-> "pending", uiBalance |-> 0,
          previousBalance |-> Undefined]]
  IN
      /\ pc[c] = "token_info"
      /\ tokenInfo' = TokenInfoName
      /\ metaCache' = cacheTokenMetadata(metaCache, tokenMint, TokenInfoName, now)
      /\ priceCache' = cacheTokenPrice(priceCache, tokenMint, TokenInfoPrice, now)
      /\ IF cyc[c].aborted
         THEN /\ SetHook(Throw(Hook, "Fetch cancelled"))
              /\ End(c, "cancelled")
              /\ UNCHANGED walletData
         ELSE /\ SetHook([Hook EXCEPT !.loadingStatus = Status("balances", 15)])
              /\ walletData' = IF cyc[c].showLoading THEN initialPendingWallets
                               ELSE walletData
              /\ pc' = [pc EXCEPT ![c] = "balance_group"]
              /\ cyc' = [cyc EXCEPT ![c].i = 0, ![c].results = <<>>]
      /\ UNCHANGED <<balanceCache, txCache, syncState, now, opCount, lastCall>>
      /\ UNCHANGED <<forceFullFetch, transactions, storedWalletData,
                     storedTransactions, started, heliusApiKey, target>>
      /\ UNCHANGED <<unitVars, gwVars>>

\* one group of batchGetBalances has settled: results.push, onProgress, then
\* the delay before the next group or the return to fetchData, which awaits
\* getTokenMetadata
BalanceGroupReturns(c) ==
  LET
    \* the setWalletData(prevData => prevData.map(...)) of onBalanceProgress
    ProgressStatuses(prevData, completed) ==
      LET currentBatchStart == ((completed - 1) \div BATCH_SIZE) * BATCH_SIZE
          currentBatchEnd == IF currentBatchStart + BATCH_SIZE < Len(validWallets)
                             THEN currentBatchStart + BATCH_SIZE
                             ELSE Len(validWallets)
      IN  [k \in 1..Len(prevData) |->
             LET index == k - 1
             IN  IF index < completed - BATCH_SIZE
                 THEN [prevData[k] EXCEPT !.status = NULL]
                 ELSE IF index >= currentBatchStart /\ index < currentBatchEnd
                 THEN [prevData[k] EXCEPT !.status = "loading"]
                 ELSE IF index >= currentBatchEnd
                 THEN [prevData[k] EXCEPT !.status = "pending"]
                 ELSE prevData[k]]
  IN
      /\ pc[c] = "balance_group"
      /\ LET i == cyc[c].i
             batch == Slice(validWallets, i, i + BATCH_SIZE)
             results == cyc[c].results \o BatchBalances(batch)
             completed == Len(results)
             percent == Round(completed * 100, Len(validWallets))
         IN  /\ loadingStatus' = Status("balances", 15 + Round(percent * 35, 100))
             /\ walletData' = IF cyc[c].showLoading
                              THEN ProgressStatuses(walletData, completed)
                              ELSE walletData
             /\ cyc' = [cyc EXCEPT ![c].results = results]
             /\ pc' = [pc EXCEPT ![c] = IF i + BATCH_SIZE < Len(validWallets)
                                        THEN "balance_delay"
                                        ELSE "token_metadata"]
      /\ UNCHANGED <<isFetching, abortController, forceFullFetch, isLoading,
                     isRefreshing, error, statusResets, transactions, tokenInfo,
                     storedWalletData, storedTransactions, started, heliusApiKey, target>>
      /\ UNCHANGED <<cacheSpecVars, unitVars, gwVars>>

\* await delay(BATCH_DELAY) of batchGetBalances has elapsed: the next group
\* is dispatched
BalanceDelayElapses(c) ==
  /\ pc[c] = "balance_delay"
  /\ cyc' = [cyc EXCEPT ![c].i = @ + BATCH_SIZE]
  /\ pc' = [pc EXCEPT ![c] = "balance_group"]
  /\ UNCHANGED <<isFetching, abortController, forceFullFetch, isLoading,
                 isRefreshing, error, loadingStatus, statusResets, walletData,
                 transactions, tokenInfo, storedWalletData, storedTransactions,
                 started, heliusApiKey, target>>
  /\ UNCHANGED <<cacheSpecVars, unitVars, gwVars>>

\* const txProgress = 50 + Math.round((batchNum / totalBatches) * 45)
txProgress(i) ==
  LET
    \* Math.ceil(n / size)
    Ceil(n, size) == (n + size - 1) \div size
  IN
      50 + Round(((i \div TX_BATCH_SIZE) + 1) * 45, Ceil(Len(validWallets), TX_BATCH_SIZE))

\* const shouldDoFullFetch =
\*   showLoading || existingTxs.length === 0 || needsForceFullFetch
ShouldDoFullFetchMutant(showLoading, existingTxs, needsForceFullFetch) ==
  showLoading \/ Len(existingTxs) = 0

ShouldDoFullFetch(showLoading, existingTxs, needsForceFullFetch) ==
  showLoading \/ Len(existingTxs) = 0 \/ needsForceFullFetch

\* const metadata = await getTokenMetadata(connection, tokenMint) has resolved:
\* the balances are published, saved and cached, then the transaction stage
\* is planned and its first batch dispatched
TokenMetadataReturns(c) ==
  LET
    MintMetadata == "m2"
    \* the setWalletData(prevData => ...) that publishes the fetched balances
    PublishedWalletData(prevData, balances, showLoading) ==
      LET Fresh(newWallet) ==
            [address |-> newWallet.address, status |-> NULL,
             uiBalance |-> newWallet.uiBalance, previousBalance |-> Undefined]
          \* new Map(prevData.map(w => [w.address, w])).get(address)
          Has(address) == \E j \in DOMAIN prevData : prevData[j].address = address
          Existing(address) ==
            prevData[CHOOSE j \in DOMAIN prevData :
                       /\ prevData[j].address = address
                       /\ \A l \in DOMAIN prevData :
                            prevData[l].address = address => l <= j]
      IN  IF ~showLoading /\ Len(prevData) > 0
          THEN [k \in 1..Len(balances) |->
                  IF Has(balances[k].address)
                  THEN [Fresh(balances[k]) EXCEPT
                          !.previousBalance = Existing(balances[k].address).uiBalance]
                  ELSE Fresh(balances[k])]
          ELSE [k \in 1..Len(balances) |-> Fresh(balances[k])]
  IN
      /\ pc[c] = "token_metadata"
      /\ LET balances == cyc[c].results
             existingTxs == storedTransactions
             needsForceFullFetch == forceFullFetch
             shouldDoFullFetch ==
               ShouldDoFullFetch(cyc[c].showLoading, existingTxs, needsForceFullFetch)
             sinceTimestamp ==
               IF ~shouldDoFullFetch /\ Len(existingTxs) > 0
               THEN SortByTimestampDesc(existingTxs)[1].timestamp
               ELSE Undefined
             processed == [Hook EXCEPT !.loadingStatus = Status("balances", 55)]
         IN  /\ walletData' = PublishedWalletData(walletData, balances, cyc[c].showLoading)
             /\ storedWalletData' = balances
             /\ balanceCache' = cacheWalletBalances(balanceCache, tokenMint, balances, now)
             /\ syncState' = updateSyncState(syncState, tokenMint, "balances", now)
             /\ metaCache' = cacheTokenMetadata(metaCache, tokenMint, MintMetadata, now)
             /\ forceFullFetch' = FALSE
             /\ IF cyc[c].aborted
                THEN /\ SetHook(Throw(processed, "Fetch cancelled"))
                     /\ End(c, "cancelled")
                ELSE /\ SetHook([Hook EXCEPT
                                   !.loadingStatus = Status("transactions", txProgress(0))])
                     /\ pc' = [pc EXCEPT ![c] = "tx_batch"]
                     /\ cyc' = [cyc EXCEPT
                                  ![c].i = 0,
                                  ![c].allTxResults = <<>>,
                                  ![c].isIncremental = ~shouldDoFullFetch,
                                  ![c].sinceTimestamp = sinceTimestamp,
                                  ![c].knownSignatures =
                                     {existingTxs[k].signature : k \in DOMAIN existingTxs}]
      /\ UNCHANGED <<txCache, priceCache, now, opCount, lastCall>>
      /\ UNCHANGED <<transactions, tokenInfo, storedTransactions, started, heliusApiKey, target>>
      /\ UNCHANGED <<unitVars, gwVars>>

\* const batchResults = await Promise.all(batchPromises) has resolved
TxBatchReturns(c) ==
  /\ pc[c] = "tx_batch"
  /\ LET i == cyc[c].i
         batch == Slice(validWallets, i, i + TX_BATCH_SIZE)
         allTxResults ==
           cyc[c].allTxResults
             \o BatchTransfers(batch, cyc[c].sinceTimestamp, cyc[c].knownSignatures)
         newTxs == allTxResults
         organized == [Hook EXCEPT !.loadingStatus = Status("transactions", 98)]
     IN  IF cyc[c].aborted
         THEN /\ SetHook(Throw(Hook, "Fetch cancelled"))
              /\ End(c, "cancelled")
              /\ UNCHANGED <<txCache, syncState, transactions, storedTransactions>>
         ELSE IF i + TX_BATCH_SIZE < Len(validWallets)
         THEN /\ cyc' = [cyc EXCEPT ![c].allTxResults = allTxResults]
              /\ pc' = [pc EXCEPT ![c] = "tx_delay"]
              /\ UNCHANGED <<isFetching, abortController, isLoading, isRefreshing,
                             error, loadingStatus, statusResets>>
              /\ UNCHANGED <<txCache, syncState, transactions, storedTransactions>>
         ELSE /\ SetHook(Finally(organized))
              /\ End(c, "done")
              /\ IF Len(newTxs) > 0
                 THEN /\ txCache' = cacheTransactions(txCache, tokenMint, newTxs, now)
                      /\ syncState' =
                           updateSyncState(syncState, tokenMint, "transactions", now)
                      /\ transactions' = CachedTxs(txCache', tokenMint)
                      /\ storedTransactions' = CachedTxs(txCache', tokenMint)
                 ELSE IF ~cyc[c].isIncremental
                 THEN /\ transactions' = <<>>
                      /\ storedTransactions' = <<>>
                      /\ UNCHANGED <<txCache, syncState>>
                 ELSE UNCHANGED <<txCache, syncState, transactions, storedTransactions>>
  /\ UNCHANGED <<balanceCache, metaCache, priceCache, now, opCount, lastCall>>
  /\ UNCHANGED <<forceFullFetch, walletData, tokenInfo, storedWalletData, started,
                 heliusApiKey, target>>
  /\ UNCHANGED <<unitVars, gwVars>>

\* the TX_BATCH_DELAY timeout has elapsed: the loop checks the signal and
\* dispatches the next batch
TxDelayElapses(c) ==
  /\ pc[c] = "tx_delay"
  /\ IF cyc[c].aborted
     THEN /\ SetHook(Throw(Hook, "Fetch cancelled"))
          /\ End(c, "cancelled")
     ELSE /\ SetHook([Hook EXCEPT
                        !.loadingStatus =
                           Status("transactions", txProgress(cyc[c].i + TX_BATCH_SIZE))])
          /\ cyc' = [cyc EXCEPT ![c].i = @ + TX_BATCH_SIZE]
          /\ pc' = [pc EXCEPT ![c] = "tx_batch"]
  /\ UNCHANGED <<forceFullFetch, walletData, transactions, tokenInfo,
                 storedWalletData, storedTransactions, started, heliusApiKey, target>>
  /\ UNCHANGED <<cacheSpecVars, unitVars, gwVars>>

\* one step of a cycle: a network call or a delay it awaits completes
CycleStep(c) ==
  \/ TokenInfoReturns(c)
  \/ BalanceGroupReturns(c)
  \/ BalanceDelayElapses(c)
  \/ TokenMetadataReturns(c)
  \/ TxBatchReturns(c)
  \/ TxDelayElapses(c)

\* ------------------------------------------------------------------------
\* Specification of the Sync Orchestrator: refresh requests, cancels and
\* network completions in any order, with or without an API key
\* ------------------------------------------------------------------------
Init ==
  /\ CacheInit /\ ClassifierIdle /\ StatusIdle /\ BatchIdle /\ GatewayInit /\ WatchIdle /\ MergeIdle /\ PagingIdle /\ ProgressIdle
  /\ pc = [c \in Cycles |-> "idle"]
  /\ cyc = [c \in Cycles |-> IdleCycle]
  /\ isFetching = FALSE
  /\ abortController = NoController
  /\ forceFullFetch = FALSE
  /\ isLoading = FALSE
  /\ isRefreshing = FALSE
  /\ error = NULL
  /\ loadingStatus = NoStatus
  /\ statusResets = 0
  /\ walletData = <<>>
  /\ transactions = <<>>
  /\ tokenInfo = NULL
  /\ storedWalletData = <<>>
  /\ storedTransactions = <<>>
  /\ started = 0
  /\ heliusApiKey \in {"", "key"}
  /\ target = TargetSet

Next ==
  \/ TimerTick
  \/ RefreshEffect
  \/ ManualRefresh
  \/ CancelFetch
  \/ StatusResetFires
  \/ \E c \in Cycles : TokenInfoReturns(c)
  \/ \E c \in Cycles : BalanceGroupReturns(c)
  \/ \E c \in Cycles : BalanceDelayElapses(c)
  \/ \E c \in Cycles : TokenMetadataReturns(c)
  \/ \E c \in Cycles : TxBatchReturns(c)
  \/ \E c \in Cycles : TxDelayElapses(c)

Spec == Init /\ [][Next]_vars

\* the position of cycle c moves on: what every step of CycleStep(c) does, and
\* no other step of Next while c is in flight
Advance(c) ==
  /\ InFlight(c)
  /\ \E p \in Positions \cup EndStates : p # pc[c] /\ pc' = [pc EXCEPT ![c] = p]

\* every network call and every delay a cycle awaits eventually completes
FairSpec == Spec /\ \A c \in Cycles : WF_pc(Advance(c))

\* ------------------------------------------------------------------------
\* Sync Orchestrator: the handlers that replace what is tracked
\* ------------------------------------------------------------------------
\* clearCache() of the gateway
clearCache ==
  /\ gwCache' = [k \in GatewayKeys |-> None]
  /\ pendingRequests' = [k \in GatewayKeys |-> NoPromise]
  /\ UNCHANGED <<inFlight, issued, lastGw>>

\* setWalletData([]); setTransactions([]); saveWalletData([]); saveTransactions([])
ClearViewAndStorage ==
  /\ walletData' = <<>>
  /\ transactions' = <<>>
  /\ storedWalletData' = <<>>
  /\ storedTransactions' = <<>>

\* what the handlers leave alone: the cycles in flight and the fetch state
HandlerFrame ==
  /\ UNCHANGED <<pc, cyc, isFetching, abortController, isLoading, isRefreshing,
                 loadingStatus, statusResets, started, heliusApiKey>>
  /\ UNCHANGED <<now, opCount, lastCall, unitVars>>

\* replaceWallets(newWallets), with a non-empty list
ReplaceWallets ==
  /\ clearCache
  /\ target' = [target EXCEPT !.wallets = TRUE]
  /\ ClearViewAndStorage
  /\ forceFullFetch' = TRUE
  /\ UNCHANGED <<tokenInfo, error>>
  /\ UNCHANGED cacheVars
  /\ HandlerFrame

\* updateTokenMint(mint, previewData)
UpdateTokenMint(previewData) ==
  /\ clearCache
  /\ target' = [target EXCEPT !.tokenMint = TRUE]
  /\ ClearViewAndStorage
  /\ tokenInfo' = IF previewData THEN "preview" ELSE NULL
  /\ forceFullFetch' = TRUE
  /\ UNCHANGED error
  /\ UNCHANGED cacheVars
  /\ HandlerFrame

\* clearAll()
ClearAll ==
  /\ clearCache
  /\ IF target.tokenMint
     THEN /\ balanceCache' = DeleteKey(balanceCache, tokenMint)
          /\ txCache' = DeleteKey(txCache, tokenMint)
          /\ metaCache' = DeleteKey(metaCache, tokenMint)
          /\ priceCache' = DeleteKey(priceCache, tokenMint)
          /\ syncState' = DeleteKey(syncState, tokenMint)
     ELSE UNCHANGED cacheVars
  /\ target' = [tokenMint |-> FALSE, wallets |-> FALSE]
  /\ ClearViewAndStorage
  /\ tokenInfo' = NULL
  /\ error' = NULL
  /\ forceFullFetch' = TRUE
  /\ HandlerFrame

\* getProjectCachedData(project.id): nothing, or the balances (and transfers)
\* an earlier cycle saved with the project
ProjectCaches ==
  {[walletData |-> <<>>, transactions |-> <<>>],
   [walletData |-> BatchBalances(validWallets), transactions |-> <<>>],
   [walletData |-> BatchBalances(validWallets),
    transactions |-> <<Transfer("s1", "w1")>>]}

\* loadProject(project), for a project of the same asset and watch list,
\* saved with its token name
LoadProject(cachedData) ==
  LET
    \* the wallet list the view shows for cached balance entries
    ViewOf(cached) ==
      [k \in 1..Len(cached) |->
         [address |-> cached[k].address, status |-> NULL,
          uiBalance |-> cached[k].uiBalance,
          previousBalance |-> cached[k].previousBalance]]
    \* the balance list saveWalletData keeps for cached balance entries
    StoredOf(cached) ==
      [k \in 1..Len(cached) |-> Balance(cached[k].address, cached[k].uiBalance)]
  IN
      LET instantWallets == CachedWallets(balanceCache, tokenMint)
          instantTxs == CachedTxs(txCache, tokenMint)
          hasData == \/ balanceCache[tokenMint] # None
                     \/ txCache[tokenMint] # None
                     \/ metaCache[tokenMint] # None
          instantTokenInfo == metaCache[tokenMint] # None
      IN  /\ clearCache
          /\ target' = TargetSet
          /\ IF hasData /\ Len(instantWallets) > 0
             THEN /\ walletData' = ViewOf(instantWallets)
                  /\ storedWalletData' = StoredOf(instantWallets)
                  /\ IF Len(instantTxs) > 0
                     THEN transactions' = instantTxs /\ storedTransactions' = instantTxs
                     ELSE UNCHANGED <<transactions, storedTransactions>>
                  /\ forceFullFetch' = FALSE
                  /\ UNCHANGED cacheVars
             ELSE IF Len(cachedData.walletData) > 0
             THEN /\ walletData' =
                       [k \in 1..Len(cachedData.walletData) |->
                          [address |-> cachedData.walletData[k].address, status |-> NULL,
                           uiBalance |-> cachedData.walletData[k].uiBalance,
                           previousBalance |-> Undefined]]
                  /\ storedWalletData' = cachedData.walletData
                  /\ balanceCache' = cacheWalletBalances(balanceCache, tokenMint,
                                                         cachedData.walletData, now)
                  /\ IF Len(cachedData.transactions) > 0
                     THEN /\ transactions' = cachedData.transactions
                          /\ storedTransactions' = cachedData.transactions
                          /\ txCache' = cacheTransactions(txCache, tokenMint,
                                                          cachedData.transactions, now)
                          /\ syncState' =
                               updateSyncState(
                                 updateSyncState(syncState, tokenMint, "balances", now),
                                 tokenMint, "transactions", now)
                     ELSE /\ UNCHANGED <<transactions, storedTransactions, txCache>>
                          /\ syncState' = updateSyncState(syncState, tokenMint, "balances", now)
                  /\ forceFullFetch' = FALSE
                  /\ UNCHANGED <<metaCache, priceCache>>
             ELSE /\ ClearViewAndStorage
                  /\ forceFullFetch' = TRUE
                  /\ UNCHANGED cacheVars
          /\ tokenInfo' = IF hasData /\ Len(instantWallets) > 0 /\ instantTokenInfo
                          THEN metaCache[tokenMint].metadata.name
                          ELSE "preview"
          /\ UNCHANGED error
          /\ HandlerFrame

\* ------------------------------------------------------------------------
\* Specification of the hook with its handlers: refresh cycles, and the user
\* replacing, clearing and loading what is tracked
\* ------------------------------------------------------------------------
MaxRefreshStarts == 1   \* cycles started per behaviour of SpecRefresh

\* the triggers of fetchData, while cycles may still start
RefreshTimerTick == started < MaxRefreshStarts /\ TimerTick
RefreshEffectRuns == started < MaxRefreshStarts /\ RefreshEffect
RefreshManually == (started < MaxRefreshStarts \/ isFetching) /\ ManualRefresh

NextRefresh ==
  \/ RefreshTimerTick
  \/ RefreshEffectRuns
  \/ RefreshManually
  \/ CancelFetch
  \/ StatusResetFires
  \/ \E c \in Cycles : TokenInfoReturns(c)
  \/ \E c \in Cycles : BalanceGroupReturns(c)
  \/ \E c \in Cycles : BalanceDelayElapses(c)
  \/ \E c \in Cycles : TokenMetadataReturns(c)
  \/ \E c \in Cycles : TxBatchReturns(c)
  \/ \E c \in Cycles : TxDelayElapses(c)
  \/ ReplaceWallets
  \/ \E previewData \in BOOLEAN : UpdateTokenMint(previewData)
  \/ ClearAll
  \/ \E cachedData \in ProjectCaches : LoadProject(cachedData)

SpecRefresh == Init /\ [][NextRefresh]_vars

\* ------------------------------------------------------------------------
\* Holdings table: walletTransactionsMap and getActivityStatus(walletAddress,
\* currentBalance) for one wallet. Times are minutes.
\* ------------------------------------------------------------------------
MaxTxs == 3          \* transfers in the history of the wallet

FIFTEEN_MINS_MS == 15
TWENTY_FOUR_HOURS_MS == 1440

\* walletData.totalBought: BUY amounts and TRANSFER_IN amounts
RECURSIVE totalBoughtMutant(_)
totalBoughtMutant(txs) ==
  IF txs = <<>> THEN 0
  ELSE (IF Head(txs).type = "BUY" THEN AmountOrZero(Head(txs).amount) ELSE 0)
         + totalBoughtMutant(Tail(txs))

RECURSIVE totalBought(_)
totalBought(txs) ==
  IF txs = <<>> THEN 0
  ELSE (IF Head(txs).type \in {"BUY", "TRANSFER_IN"}
        THEN AmountOrZero(Head(txs).amount) ELSE 0)
         + totalBought(Tail(txs))

\* txAge <= FIFTEEN_MINS_MS
In15MinsMutant(txAge) == txAge < FIFTEEN_MINS_MS

In15Mins(txAge) == txAge <= FIFTEEN_MINS_MS

\* the single pass over walletTxs, left at the first SELL of the last 15 minutes
RECURSIVE Scan(_, _, _)
Scan(acc, txs, currentTime) ==
  LET
    \* the addresses of the watch list (trackedAddresses)
    trackedAddresses == {"w1", "w2"}
    \* the category walletTransactionsMap gives a transfer, with the fallback for
    \* legacy types
    Category(tx) ==
      IF tx.type \in {"BUY", "TRANSFER_IN", "TRANSFER_OUT", "SELL"} THEN tx.type
      ELSE IF tx.toWallet # NULL /\ toLowerCase(tx.toWallet) \in trackedAddresses
           THEN "TRANSFER_OUT"
           ELSE "SELL"
    \* txAge <= TWENTY_FOUR_HOURS_MS
    In24Hours(txAge) == txAge <= TWENTY_FOUR_HOURS_MS
    \* one iteration of for (const tx of walletTxs), up to its break
    ScanOne(acc_, tx, currentTime_) ==
      LET category == Category(tx)
          counted == [acc_ EXCEPT
                        !.totalBuys = IF category = "BUY" THEN @ + 1 ELSE @,
                        !.totalTransfersIn = IF category = "TRANSFER_IN" THEN @ + 1 ELSE @]
          txAge == currentTime_ - tx.timestamp
          in15 == [counted EXCEPT
                     !.sellsIn15Mins = @ \/ (In15Mins(txAge) /\ category = "SELL")]
      IN  IF tx.timestamp = Undefined THEN counted
          ELSE IF ~In24Hours(txAge) THEN in15
          ELSE [in15 EXCEPT
                  !.sellsIn24Hours = @ \/ category = "SELL",
                  !.sellAmountIn24Hours =
                     IF category = "SELL" THEN @ + AmountOrZero(tx.amount) ELSE @,
                  !.transfersOutIn24Hours = @ \/ category = "TRANSFER_OUT",
                  !.transfersInIn24Hours = @ \/ category = "TRANSFER_IN",
                  !.buysIn24Hours = @ \/ category = "BUY"]
  IN
      IF txs = <<>> THEN acc
      ELSE LET next == ScanOne(acc, Head(txs), currentTime)
           IN  IF next.sellsIn15Mins THEN next
               ELSE Scan(next, Tail(txs), currentTime)

\* hasSignificantSell: more than 5% of the acquired total was sold, or anything
\* at all when no total is known (sold / total > 0.05 on integer amounts)
hasSignificantSellMutant(sellAmountIn24Hours, totalAcquired) ==
  IF totalAcquired > 0
  THEN sellAmountIn24Hours * 100 >= 5 * totalAcquired
  ELSE sellAmountIn24Hours > 0

hasSignificantSell(sellAmountIn24Hours, totalAcquired) ==
  IF totalAcquired > 0
  THEN sellAmountIn24Hours * 100 > 5 * totalAcquired
  ELSE sellAmountIn24Hours > 0

\* getActivityStatus(walletAddress, currentBalance).status, with walletTxs the
\* transfers of the wallet and currentTime the value of Date.now()
getActivityStatus(walletTxs, currentBalance, currentTime) ==
  LET
    \* the flags and counters of the pass before its first iteration
    NoActivity ==
      [sellsIn15Mins |-> FALSE, sellsIn24Hours |-> FALSE, sellAmountIn24Hours |-> 0,
       transfersOutIn24Hours |-> FALSE, transfersInIn24Hours |-> FALSE,
       buysIn24Hours |-> FALSE, totalBuys |-> 0, totalTransfersIn |-> 0]
  IN
      IF currentBalance <= 0 \/ currentBalance = Undefined THEN "OUT"
      ELSE IF Len(walletTxs) = 0 THEN "UNKNOWN"
      ELSE
        LET seen == Scan(NoActivity, walletTxs, currentTime)
            totalAcquired == totalBought(walletTxs)
        IN  IF seen.sellsIn15Mins THEN "SELLING"
            ELSE IF /\ seen.sellsIn24Hours
                    /\ hasSignificantSell(seen.sellAmountIn24Hours, totalAcquired)
                 THEN "SOLD"
            ELSE IF seen.transfersOutIn24Hours THEN "TRANSFERRED"
            ELSE IF seen.transfersInIn24Hours THEN "RECEIVED"
            ELSE IF seen.buysIn24Hours
                 THEN (IF seen.totalBuys = 1 /\ seen.totalTransfersIn = 0
                       THEN "BUY" ELSE "BOUGHT_MORE")
            ELSE "HOLDING"

\* the transfers a history is made of: what happened, and when
StatusTx(type, amount, timestamp) ==
  [type |-> type, amount |-> amount, timestamp |-> timestamp, toWallet |-> NULL]

StatusInit ==
  LET
    StatusKinds ==
      {<<"BUY", 100>>, <<"SELL", 80>>, <<"SELL", 8>>, <<"SELL", 5>>,
       <<"TRANSFER_IN", 100>>, <<"TRANSFER_OUT", 5>>}
    \* minute of the transfer, counted from an instant after the epoch (minute 0 is
    \* a non-zero time stamp); Undefined is a transfer without a block time
    StatusTimes == {0, 10, Undefined}
    StatusTxs == {StatusTx(k[1], k[2], t) : k \in StatusKinds, t \in StatusTimes}
    \* values of Date.now(): both sides of the 15-minute and 24-hour windows of a
    \* transfer of minute 10, and the last minute of the 24-hour window of minute 0
    StatusNows == {25, 26, 1440, 1450, 1451}
    StatusBalances == {0, 20}
  IN
      /\ \E k \in 0..MaxTxs :
           \E txs \in [1..k -> StatusTxs], b \in StatusBalances, t \in StatusNows :
             stInput = [walletTxs |-> txs, currentBalance |-> b, currentTime |-> t]
      /\ stResult = NULL
      /\ stDone = FALSE

\* one call of getActivityStatus
GetActivityStatus ==
  /\ ~stDone
  /\ stResult' = getActivityStatus(stInput.walletTxs, stInput.currentBalance,
                                   stInput.currentTime)
  /\ stDone' = TRUE
  /\ UNCHANGED stInput
  /\ UNCHANGED <<cacheSpecVars, clsVars, batchVars, watchVars, mergeVars, pageVars, progressVars, gwVars, orchVars>>

\* ------------------------------------------------------------------------
\* Specification of the holdings table status: one history is evaluated
\* ------------------------------------------------------------------------
InitStatus ==
  StatusInit /\ BatchIdle /\ CacheInit /\ ClassifierIdle /\ GatewayInit /\ OrchestratorInit /\ WatchIdle /\ MergeIdle /\ PagingIdle /\ ProgressIdle

NextStatus == GetActivityStatus

SpecStatus == InitStatus /\ [][NextStatus]_vars

\* ------------------------------------------------------------------------
\* Gateway group loops: batchGetBalances(connection, wallets, tokenMint,
\* hasApiKey, apiKey, onProgress) and the transaction loop of fetchData, one
\* remote request at a time
\* ------------------------------------------------------------------------
MaxWallets == 11     \* accounts handed to one call

\* HELIUS_RATE_LIMIT.batchSize and HELIUS_RATE_LIMIT.minDelayMs
HELIUS_RATE_LIMIT_batchSize == 5
HELIUS_RATE_LIMIT_minDelayMs == 2000

\* the account list of a call: account `bad` (if any) has a malformed address
BatchWallets(in) ==
  LET
    \* wallets[k].address of the k-th account of a call
    WalletNames ==
      <<"w1", "w2", "w3", "w4", "w5", "w6", "w7", "w8", "w9", "w10", "w11", "w12">>
  IN
      [k \in 1..in.n |-> IF k = in.bad THEN "bad!" ELSE WalletNames[k]]

\* hasApiKeyTx = settings.heliusApiKey && settings.heliusApiKey.trim() !== ''
hasApiKeyTx(in) == in.apiKey # NULL

\* BATCH_SIZE of batchGetBalances, TX_BATCH_SIZE of fetchData
GroupSize(in) ==
  IF in.call = "balances"
  THEN (IF in.hasApiKey THEN HELIUS_RATE_LIMIT_batchSize ELSE 3)
  ELSE (IF hasApiKeyTx(in) THEN 3 ELSE 2)

\* BATCH_DELAY of batchGetBalances, TX_BATCH_DELAY of fetchData
GroupDelayMutant(in) ==
  IF in.call = "balances"
  THEN (IF in.hasApiKey THEN 500 ELSE HELIUS_RATE_LIMIT_minDelayMs)
  ELSE (IF hasApiKeyTx(in) THEN 1000 ELSE 2500)

GroupDelay(in) ==
  IF in.call = "balances"
  THEN (IF in.hasApiKey THEN HELIUS_RATE_LIMIT_minDelayMs ELSE 500)
  ELSE (IF hasApiKeyTx(in) THEN 2500 ELSE 1000)

\* if (hasApiKey && apiKey): the group goes to fetchBalancesBatchHelius
UsesHelius(in) == in.call = "balances" /\ in.hasApiKey /\ in.apiKey # NULL

\* if (i + BATCH_SIZE < wallets.length): a pause follows the group
MoreGroupsMutant(i, size, n) == i + size <= n

MoreGroups(i, size, n) == i + size < n

\* the account's item of the group sends a request to the remote source:
\* fetchBalancesBatchHelius always calls fetch; getTokenBalance and
\* getWalletTransactions return before any request when an address is
\* malformed, getTokenBalance also when the balance is cached
IssuesRequest(in, k) ==
  IF UsesHelius(in) THEN TRUE
  ELSE /\ isValidAddress(BatchWallets(in)[k])
       /\ isValidAddress(in.tokenMint)
       /\ ~(in.call = "balances" /\ k = in.cached)

\* how the remote source answers the request for the account: "ok", "throws"
\* (the request rejects) or "errorResponse" (an HTTP or JSON-RPC error body)
RemoteOutcome(in, k) ==
  IF ~isValidAddress(BatchWallets(in)[k]) THEN "errorResponse"
  ELSE IF k = in.fail THEN in.failKind
  ELSE "ok"

BatchResult(address, value, err) ==
  [address |-> address, value |-> value, error |-> err]

BatchInit ==
  LET
    \* the calls made of the gateway
    BatchInputs ==
      {[call |-> c, n |-> n, tokenMint |-> m, hasApiKey |-> key[1], apiKey |-> key[2],
        bad |-> b, fail |-> f[1], failKind |-> f[2], cached |-> h] :
         c \in {"balances", "transactions"}, n \in 0..MaxWallets, m \in {"A", "bad!"},
         key \in {<<FALSE, NULL>>, <<TRUE, "key">>, <<TRUE, NULL>>},
         b \in {0, 2, 7},
         f \in {<<0, "ok">>, <<1, "throws">>, <<1, "errorResponse">>, <<6, "throws">>},
         h \in {0, 3}}
  IN
      /\ \E in \in BatchInputs :
           /\ in.bad <= in.n /\ in.fail <= in.n /\ in.cached <= in.n
           /\ (in.call = "transactions" => in.cached = 0 /\ (in.hasApiKey <=> in.apiKey # NULL))
           /\ bIn = in
      /\ bPc = "idle"
      /\ bI = 0
      /\ bOutstanding = {}
      /\ bGroup = <<>>
      /\ bResults = <<>>
      /\ bProgress = <<>>
      /\ bRequests = {}
      /\ bDispatched = <<>>
      /\ bWaits = <<>>

\* the items of the group starting after position i are started together
Dispatch(i) ==
  LET
    \* batch = wallets.slice(i_, i_ + BATCH_SIZE), as positions of the account list
    GroupOf(in, i_) ==
      {k \in 1..in.n : i_ < k /\ k <= i_ + GroupSize(in)}
    \* the item's result when no request is sent
    ImmediateResult(in, k) ==
      LET address == BatchWallets(in)[k]
      IN  IF in.call = "transactions" THEN BatchResult(address, 0, NULL)
          ELSE IF ~isValidAddress(address)
               THEN BatchResult(address, 0, "Invalid wallet address format")
          ELSE IF ~isValidAddress(in.tokenMint)
               THEN BatchResult(address, 0, "Invalid token mint format")
          ELSE BatchResult(address, 5, NULL)
  IN
      LET group == GroupOf(bIn, i)
          requests == {k \in group : IssuesRequest(bIn, k)}
      IN  /\ bPc' = "group"
          /\ bI' = i
          /\ bOutstanding' = requests
          /\ bRequests' = bRequests \cup requests
          /\ bGroup' = [k \in group |->
                          IF k \in requests THEN None ELSE ImmediateResult(bIn, k)]
          /\ bDispatched' = Append(bDispatched, Cardinality(group))

\* the call starts: for (let i = 0; i < wallets.length; ...)
BatchStart ==
  /\ bPc = "idle"
  /\ IF 0 < bIn.n
     THEN Dispatch(0)
     ELSE /\ bPc' = "done"
          /\ UNCHANGED <<bI, bOutstanding, bGroup, bRequests, bDispatched>>
  /\ UNCHANGED <<bIn, bResults, bProgress, bWaits>>
  /\ UNCHANGED <<cacheSpecVars, clsVars, statusVars, watchVars, mergeVars, pageVars, progressVars, gwVars, orchVars>>

\* the request of one account of the group settles
BatchRequestSettles(k) ==
  LET
    \* the item's result when its request has settled
    SettledResult(in, k_) ==
      LET address == BatchWallets(in)[k_]
          outcome == RemoteOutcome(in, k_)
      IN  IF UsesHelius(in)
          THEN (IF outcome = "throws" THEN BatchResult(address, 0, "failed")
                ELSE IF outcome = "ok" /\ isValidAddress(in.tokenMint)
                     THEN BatchResult(address, 5, NULL)
                ELSE BatchResult(address, 0, NULL))
          ELSE IF in.call = "balances"
          THEN (IF outcome = "ok" THEN BatchResult(address, 5, NULL)
                ELSE BatchResult(address, 0, "failed"))
          ELSE (IF outcome = "ok" THEN BatchResult(address, 1, NULL)
                ELSE BatchResult(address, 0, NULL))
  IN
      /\ bPc = "group"
      /\ k \in bOutstanding
      /\ bOutstanding' = bOutstanding \ {k}
      /\ bGroup' = [bGroup EXCEPT ![k] = SettledResult(bIn, k)]
      /\ UNCHANGED <<bIn, bPc, bI, bResults, bProgress, bRequests, bDispatched, bWaits>>
      /\ UNCHANGED <<cacheSpecVars, clsVars, statusVars, watchVars, mergeVars, pageVars, progressVars, gwVars, orchVars>>

\* the results of the group in the order of its accounts
RECURSIVE GroupResults(_, _, _)
GroupResults(group, from, to) ==
  IF from > to THEN <<>>
  ELSE <<group[from]>> \o GroupResults(group, from + 1, to)

\* every item of the group has settled: the results are pushed, progress is
\* reported, and the call pauses before the next group or returns
BatchGroupCompletes ==
  /\ bPc = "group"
  /\ bOutstanding = {}
  /\ LET size == Cardinality(DOMAIN bGroup)
         results == bResults \o GroupResults(bGroup, bI + 1, bI + size)
     IN  /\ bResults' = results
         /\ bProgress' = IF bIn.call = "balances"
                         THEN Append(bProgress, Len(results))
                         ELSE bProgress
  /\ IF MoreGroups(bI, GroupSize(bIn), bIn.n)
     THEN /\ bPc' = "delay"
          /\ bWaits' = Append(bWaits, GroupDelay(bIn))
     ELSE /\ bPc' = "done"
          /\ UNCHANGED bWaits
  /\ UNCHANGED <<bIn, bI, bOutstanding, bGroup, bRequests, bDispatched>>
  /\ UNCHANGED <<cacheSpecVars, clsVars, statusVars, watchVars, mergeVars, pageVars, progressVars, gwVars, orchVars>>

\* the pause is over: i += BATCH_SIZE and the loop condition is tested
BatchDelayElapses ==
  /\ bPc = "delay"
  /\ IF bI + GroupSize(bIn) < bIn.n
     THEN Dispatch(bI + GroupSize(bIn))
     ELSE /\ bPc' = "done"
          /\ UNCHANGED <<bI, bOutstanding, bGroup, bRequests, bDispatched>>
  /\ UNCHANGED <<bIn, bResults, bProgress, bWaits>>
  /\ UNCHANGED <<cacheSpecVars, clsVars, statusVars, watchVars, mergeVars, pageVars, progressVars, gwVars, orchVars>>

\* ------------------------------------------------------------------------
\* Specification of the gateway group loops: one call runs to its end
\* ------------------------------------------------------------------------
InitBatch ==
  /\ BatchInit
  /\ CacheInit /\ ClassifierIdle /\ StatusIdle /\ GatewayInit /\ OrchestratorInit /\ WatchIdle /\ MergeIdle /\ PagingIdle /\ ProgressIdle

NextBatch ==
  \/ BatchStart
  \/ \E k \in 1..MaxWallets : BatchRequestSettles(k)
  \/ BatchGroupCompletes
  \/ BatchDelayElapses

SpecBatch == InitBatch /\ [][NextBatch]_vars

\* ------------------------------------------------------------------------
\* Specification of the Sync Cache: any sequence of cache operations
\* ------------------------------------------------------------------------
InitCache ==
  CacheInit /\ ClassifierIdle /\ StatusIdle /\ BatchIdle /\ GatewayInit /\ OrchestratorInit /\ WatchIdle /\ MergeIdle /\ PagingIdle /\ ProgressIdle

NextCache ==
  \/ \E t \in Assets, wd \in IncomingBalances : CacheWalletBalances(t, wd)
  \/ \E t \in Assets, txs \in IncomingTransfers : CacheTransactions(t, txs)
  \/ \E t \in Assets, m \in MetadataValues : CacheTokenMetadata(t, m)
  \/ \E t \in Assets, p \in PriceValues : CacheTokenPrice(t, p)
  \/ \E t \in Assets : ClearTokenCache(t)
  \/ \E t \in Assets : GetInstantLoadData(t)
  \/ \E t \in Assets : GetStaleWallets(t, <<"w3", "w2", "w1">>)
  \/ Tick

SpecCache == InitCache /\ [][NextCache]_vars

\* ------------------------------------------------------------------------
\* Specification of the Transfer Classifier: one transaction is classified
\* ------------------------------------------------------------------------
InitClassifier ==
  ClassifierInit /\ StatusIdle /\ BatchIdle /\ CacheInit /\ GatewayInit /\ OrchestratorInit /\ WatchIdle /\ MergeIdle /\ PagingIdle /\ ProgressIdle

NextClassifier == Classify

SpecClassifier == InitClassifier /\ [][NextClassifier]_vars

\* ------------------------------------------------------------------------
\* Specification of the Ledger Gateway: calls, settlements, clearCache()
\* ------------------------------------------------------------------------
InitGateway ==
  GatewayInit /\ CacheInit /\ ClassifierIdle /\ StatusIdle /\ BatchIdle /\ OrchestratorInit /\ WatchIdle /\ MergeIdle /\ PagingIdle /\ ProgressIdle

NextGateway ==
  \/ \E w \in GatewayAddresses : GetTokenBalance(w, "A")
  \/ FetchDexScreenerData("A")
  \/ \E r \in inFlight, ok \in BOOLEAN : RequestSettles(r, ok)
  \/ ClearCache
  \/ GatewayTick

SpecGateway == InitGateway /\ [][NextGateway]_vars

\* ------------------------------------------------------------------------
\* Properties of the Sync Cache (checked under SpecCache)
\* ------------------------------------------------------------------------

\* C1: after any sequence of cacheTransactions merges, the cached transfer
\* list of every asset holds no two entries with the same signature.
C1_NoDuplicateSignatures ==
  LET
    SignaturesOf(txs) == {txs[i].signature : i \in DOMAIN txs}
    HasDuplicateSignature(txs) ==
      \E i, j \in DOMAIN txs : i # j /\ txs[i].signature = txs[j].signature
  IN
      \A t \in Assets : ~HasDuplicateSignature(CachedTxs(txCache, t))

\* C2: merging the same transfer list into the cache of one asset twice in a
\* row reports added = 0 the second time, and the total and the cached list
\* are those left by the first merge.
C2_SecondMergeAddsNothing ==
  [][(opCount' = opCount + 1 /\ lastCall'.op = "cacheTransactions" /\ lastCall'.repeated)
       => /\ lastCall'.added = 0
          /\ lastCall'.total = lastCall.total
          /\ CachedTxs(txCache', lastCall'.tokenMint)
               = CachedTxs(txCache, lastCall'.tokenMint)]_cacheSpecVars

\* C2 witness: a non-empty two-element list has just been merged a second time
\* into a cache that holds it.
C2_Witness ==
  /\ lastCall.op = "cacheTransactions"
  /\ lastCall.repeated
  /\ Len(lastCall.newTransactions) = 2
  /\ lastCall.total >= 2

\* everything the cache holds for one asset
EntriesOf(t) == <<balanceCache[t], txCache[t], metaCache[t], priceCache[t], syncState[t]>>

MergeOps == {"cacheWalletBalances", "cacheTransactions", "cacheTokenMetadata", "cacheTokenPrice"}

\* C3: a merge for asset A leaves the balances, transfers, metadata, price and
\* sync-state entry of every other asset B exactly as they were.
C3_MergeIsolation ==
  [][\A b \in Assets :
       (opCount' = opCount + 1 /\ lastCall'.op \in MergeOps /\ lastCall'.tokenMint # b)
         => EntriesOf(b)' = EntriesOf(b)]_cacheSpecVars

\* C3 witness: a balance merge for asset A has run while asset B holds cached
\* balances and transfers.
C3_Witness ==
  /\ lastCall.op = "cacheWalletBalances"
  /\ lastCall.tokenMint = "A"
  /\ balanceCache["A"] # None
  /\ balanceCache["B"] # None
  /\ CachedTxs(txCache, "B") # <<>>

\* ------------------------------------------------------------------------
\* Properties of the Transfer Classifier (checked under SpecClassifier)
\* ------------------------------------------------------------------------
\* the token delta and the SOL delta (lamports) of the classified transaction
\* (0 for a raw transaction that cannot be read)
ClsWellFormed ==
  /\ clsInput.tx # None
  /\ \A i \in DOMAIN clsInput.tx.preTokenBalances : clsInput.tx.preTokenBalances[i] # None
  /\ \A i \in DOMAIN clsInput.tx.postTokenBalances : clsInput.tx.postTokenBalances[i] # None
ClsTokenDelta ==
  IF ClsWellFormed
  THEN tokenChange(clsInput.tx, clsInput.walletAddress, clsInput.tokenMint) ELSE 0
ClsLamports == IF ClsWellFormed THEN solChange(clsInput.tx, clsInput.walletAddress) ELSE 0

SELL_LAMPORTS == 1000000
BUY_LAMPORTS == 10000000

\* C10: with a non-zero tokenDelta, a negative delta is SELL iff solDelta is
\* strictly above 0.001 SOL (1,000,000 lamports) and TRANSFER_OUT otherwise; a
\* positive delta is BUY iff solDelta is strictly below -0.01 SOL and
\* TRANSFER_IN otherwise.
C10_CategoryThresholds ==
  (clsDone /\ ClsTokenDelta # 0 /\ foundMint(clsInput.tx, clsInput.tokenMint))
    => /\ clsResult # None
       /\ ClsTokenDelta < 0 =>
            clsResult.type = (IF ClsLamports > SELL_LAMPORTS THEN "SELL" ELSE "TRANSFER_OUT")
       /\ ClsTokenDelta > 0 =>
            clsResult.type = (IF ClsLamports < 0 - BUY_LAMPORTS THEN "BUY" ELSE "TRANSFER_IN")

\* C10 witness: tokens left the wallet while it gained exactly 0.001 SOL, and
\* the transfer was classified TRANSFER_OUT.
C10_Witness ==
  /\ clsDone
  /\ ClsTokenDelta < 0
  /\ ClsLamports = SELL_LAMPORTS
  /\ clsResult # None
  /\ clsResult.type = "TRANSFER_OUT"

\* ------------------------------------------------------------------------
\* Properties of the Ledger Gateway (checked under SpecGateway)
\* ------------------------------------------------------------------------

\* C9: for every gateway cache key at most one remote request is in flight at
\* any time, whatever the interleaving of calls, settlements and clearCache().
C9_OneRequestPerKey ==
  LET
    RequestsInFlight(key) == {r \in inFlight : r.key = key}
  IN
      \A k \in GatewayKeys : Cardinality(RequestsInFlight(k)) <= 1

\* ------------------------------------------------------------------------
\* Properties of the Sync Orchestrator (checked under Spec and FairSpec)
\* ------------------------------------------------------------------------

\* C4: at any time at most one non-forced refresh cycle is in flight.
C4_OneCycleInFlight ==
  Cardinality({c \in Cycles : InFlight(c) /\ ~cyc[c].forceRefresh}) <= 1

\* cycle c dispatches an account group or a transaction batch in this step
Dispatches(c) ==
  /\ pc'[c] \in {"balance_group", "tx_batch"}
  /\ pc'[c] # pc[c]

\* C5: once cancel has been issued for a cycle, that cycle dispatches no
\* further account group and no further transaction batch.
C5_NoDispatchAfterCancel ==
  [][\A c \in Cycles : cyc[c].aborted => ~Dispatches(c)]_vars

\* C6: once cancel has been issued for a cycle, no step of that cycle writes
\* to the Sync Cache or updates the visible balances or transfers.
C6_NoWriteAfterCancel ==
  [][\A c \in Cycles :
       (cyc[c].aborted /\ pc'[c] # pc[c])
         => UNCHANGED <<cacheVars, walletData, transactions>>]_vars

\* cycle c ends in this step because its signal was aborted
EndsCancelled(c) == pc[c] # "cancelled" /\ pc'[c] = "cancelled"

Ends(c) == pc[c] \notin EndStates /\ pc'[c] \in EndStates

\* C8: every cycle in flight eventually ends, and the step in which a cycle
\* ends (done, error or cancelled) clears the in-progress flag, the loading
\* indicator and the refreshing indicator.
C8_CyclesEndAndCleanUp ==
  /\ \A c \in Cycles : InFlight(c) ~> ~InFlight(c)
  /\ [][\A c \in Cycles :
          Ends(c) => (~isFetching' /\ ~isLoading' /\ ~isRefreshing')]_vars

\* C8 witness: one cycle has run to completion and another has ended as
\* cancelled, and the flag and both indicators are clear.
C8_Witness ==
  /\ \E c \in Cycles : pc[c] = "done"
  /\ \E c \in Cycles : pc[c] = "cancelled"
  /\ ~isFetching /\ ~isLoading /\ ~isRefreshing

\* C11: the classified amount is |tokenDelta| / 10^decimals for the decimals
\* the transaction reports (0 included): amount * 10^decimals = rawAmount =
\* |tokenDelta|.
C11_AmountScaledByDecimals ==
  LET
    \* the decimals the transaction reports for the asset on the watched wallet's
    \* balance entry (the last matching post-balance, else the last pre-balance)
    ClsReportedDecimals ==
      LET pre == OwnBalances(clsInput.tx.preTokenBalances, clsInput.walletAddress,
                             clsInput.tokenMint)
          post == OwnBalances(clsInput.tx.postTokenBalances, clsInput.walletAddress,
                              clsInput.tokenMint)
      IN  IF post # <<>> THEN post[Len(post)].decimals
          ELSE IF pre # <<>> THEN pre[Len(pre)].decimals
          ELSE Undefined
  IN
      (clsDone /\ clsResult # None /\ ClsReportedDecimals # Undefined)
        => /\ clsResult.rawAmount = Abs(ClsTokenDelta)
           /\ clsResult.amount.num * Pow10(ClsReportedDecimals)
                = clsResult.rawAmount * clsResult.amount.den

\* ------------------------------------------------------------------------
\* Activity status (SpecStatus)
\* ------------------------------------------------------------------------
\* the transfer is dated and not older than the window
StWithin(tx, window) ==
  tx.timestamp # Undefined /\ stInput.currentTime - tx.timestamp <= window

\* the history has a transfer of the type inside the window
StHas(type, window) ==
  \E i \in 1..Len(stInput.walletTxs) :
    stInput.walletTxs[i].type = type /\ StWithin(stInput.walletTxs[i], window)

\* the amounts of the transfers of the given types, dated inside the window
\* when one is given
RECURSIVE StSum(_, _, _)
StSum(txs, types, window) ==
  IF txs = <<>> THEN 0
  ELSE (IF /\ Head(txs).type \in types
           /\ (window = Undefined \/ StWithin(Head(txs), window))
        THEN Head(txs).amount ELSE 0)
         + StSum(Tail(txs), types, window)

\* the history of the scenario: 100 units acquired, 80 disposed of 10 minutes later
StBoughtThenSold ==
  stInput.walletTxs \in {<<StatusTx("BUY", 100, 0), StatusTx("SELL", 80, 10)>>,
                         <<StatusTx("SELL", 80, 10), StatusTx("BUY", 100, 0)>>}

\* C12 as stated: with balance 20 and the history ACQUIRE 100, DISPOSE 80 ten
\* minutes later, the status is SELLING while now is within 15 minutes of the
\* disposal and SOLD at every later now; it is never HOLDING.
C12_SellingElseSoldAlways ==
  (stDone /\ StBoughtThenSold /\ stInput.currentBalance = 20
     /\ stInput.currentTime >= 10)
    => /\ stResult = (IF stInput.currentTime - 10 <= 15 THEN "SELLING" ELSE "SOLD")
       /\ stResult # "HOLDING"

\* C12 amended: with balance 20 and the history ACQUIRE 100, DISPOSE 80 ten
\* minutes later, at every now at or after the disposal and within 24 hours of
\* it the status is SELLING while now is within 15 minutes of the disposal,
\* otherwise SOLD, and never HOLDING.
C12_SellingElseSoldWithin24h ==
  (stDone /\ StBoughtThenSold /\ stInput.currentBalance = 20
     /\ stInput.currentTime >= 10 /\ stInput.currentTime - 10 <= 1440)
    => /\ stResult = (IF stInput.currentTime - 10 <= 15 THEN "SELLING" ELSE "SOLD")
       /\ stResult # "HOLDING"

C12_Witness ==
  /\ stDone /\ StBoughtThenSold /\ stInput.currentBalance = 20
  /\ stInput.currentTime = 25
  /\ stResult = "SELLING"

\* the amount disposed of in the last 24 hours
StSold24h == StSum(stInput.walletTxs, {"SELL"}, 1440)

\* the amount the wallet ever took in, bought or received
StAcquired == StSum(stInput.walletTxs, {"BUY", "TRANSFER_IN"}, Undefined)

\* the disposals of the last 24 hours took more than 5% of what was taken in
StReducedOver5Percent ==
  IF StAcquired > 0 THEN StSold24h * 20 > StAcquired ELSE StSold24h > 0

\* what C13 expects of the status
StSellingSoldReceived ==
  stResult = (IF StHas("SELL", 15) THEN "SELLING"
              ELSE IF StReducedOver5Percent THEN "SOLD"
              ELSE "RECEIVED")

\* C13 as stated: with a positive balance and both a DISPOSE and a TRANSFER_IN
\* inside the 24-hour window, the status is SELLING if a disposal is within 15
\* minutes, else SOLD if the disposals took more than 5% of the position, else
\* RECEIVED, and nothing else.
C13_SellingSoldReceived ==
  (stDone /\ stInput.currentBalance > 0
     /\ StHas("SELL", 1440) /\ StHas("TRANSFER_IN", 1440))
    => StSellingSoldReceived

\* C13 amended: with a positive balance, both a DISPOSE and a TRANSFER_IN
\* inside the 24-hour window and no TRANSFER_OUT inside it, the status is
\* SELLING if a disposal is within 15 minutes, else SOLD if the disposals took
\* more than 5% of the position, else RECEIVED, and nothing else.
C13_SellingSoldReceivedNoTransferOut ==
  (stDone /\ stInput.currentBalance > 0
     /\ StHas("SELL", 1440) /\ StHas("TRANSFER_IN", 1440)
     /\ ~StHas("TRANSFER_OUT", 1440))
    => StSellingSoldReceived

C13_Witness ==
  /\ stDone /\ stInput.currentBalance > 0
  /\ StHas("SELL", 1440) /\ StHas("TRANSFER_IN", 1440)
  /\ ~StHas("TRANSFER_OUT", 1440) /\ ~StHas("SELL", 15)
  /\ ~StReducedOver5Percent
  /\ stResult = "RECEIVED"

\* the amount the wallet ever bought
StBought == StSum(stInput.walletTxs, {"BUY"}, Undefined)

\* C14 as stated: with a positive balance, no DISPOSE in the last 15 minutes
\* and a DISPOSE within 24 hours, the status is SOLD exactly when the amount
\* disposed of in the last 24 hours exceeds 5% of the total ACQUIRE amount
\* (TRANSFER_IN amounts left out), or is positive when that total is zero.
C14_SoldOver5PercentOfBought ==
  (stDone /\ stInput.currentBalance > 0
     /\ ~StHas("SELL", 15) /\ StHas("SELL", 1440))
    => (stResult = "SOLD"
          <=> IF StBought > 0 THEN StSold24h * 20 > StBought ELSE StSold24h > 0)

\* C14 amended: with a positive balance, no DISPOSE in the last 15 minutes and
\* a DISPOSE within 24 hours, the status is SOLD exactly when the amount
\* disposed of in the last 24 hours exceeds 5% of the total of the ACQUIRE and
\* TRANSFER_IN amounts, or is positive when that total is zero.
C14_SoldOver5PercentOfAcquired ==
  (stDone /\ stInput.currentBalance > 0
     /\ ~StHas("SELL", 15) /\ StHas("SELL", 1440))
    => (stResult = "SOLD"
          <=> IF StAcquired > 0 THEN StSold24h * 20 > StAcquired ELSE StSold24h > 0)

C14_Witness ==
  /\ stDone /\ stInput.currentBalance > 0
  /\ ~StHas("SELL", 15) /\ StHas("SELL", 1440)
  /\ StBought = 100 /\ StAcquired = 200 /\ StSold24h = 8
  /\ stResult # "SOLD"

\* ------------------------------------------------------------------------
\* Gateway group loops (SpecBatch)
\* ------------------------------------------------------------------------
BalancesCall == bIn.call = "balances"

\* the progress reports so far have strictly increasing completed counts
ProgressIncreases ==
  \A a, b \in 1..Len(bProgress) : a < b => bProgress[a] < bProgress[b]

\* a step that starts a group finds every request of the groups before it
\* settled and one elapsed pause per group before it
GroupsOneAfterAnother ==
  [][Len(bDispatched') > Len(bDispatched)
       => /\ bOutstanding = {}
          /\ Len(bWaits) = Len(bDispatched)
          /\ (Len(bDispatched) > 0 => bPc = "delay")
          /\ bWaits' = bWaits]_vars

\* what a finished call has done
GroupsAndReports ==
  (BalancesCall /\ bPc = "done")
    => LET groups == (bIn.n + GroupSize(bIn) - 1) \div GroupSize(bIn)
       IN  /\ Len(bDispatched) = groups
           /\ Len(bWaits) = (IF groups = 0 THEN 0 ELSE groups - 1)
           /\ Len(bProgress) = groups
           /\ (groups > 0 => bProgress[groups] = bIn.n)

\* C15: batchGetBalances starts exactly ceil(N/B) groups, each only after the
\* requests of the group before it have all settled and the pause after that
\* group has elapsed, pauses after every group but the last, and reports
\* progress once per group with strictly increasing completed, ending at N.
C15_GroupsStrictlySequential ==
  /\ [](BalancesCall => ProgressIncreases)
  /\ []GroupsAndReports
  /\ GroupsOneAfterAnother

\* 11 accounts in groups of 5: 3 groups, 2 pauses, 3 reports
C15_Witness ==
  /\ BalancesCall /\ bPc = "done"
  /\ bIn.n = 11 /\ GroupSize(bIn) = 5
  /\ bDispatched = <<5, 5, 1>>
  /\ Len(bWaits) = 2
  /\ bProgress = <<5, 10, 11>>

\* C16: a finished batchGetBalances call has exactly one result per input
\* account, in input order, on both paths, and the result of an account whose
\* balance fetch failed carries an error field.
C16_OneResultPerAccount ==
  LET
    \* the balance fetch of the k-th account failed: its address was refused, or
    \* the remote source did not answer its request with a balance
    BalanceFetchFailed(k) ==
      \/ ~IssuesRequest(bIn, k) /\ ~isValidAddress(BatchWallets(bIn)[k])
      \/ k \in bRequests /\ RemoteOutcome(bIn, k) # "ok"
  IN
      (BalancesCall /\ bPc = "done")
        => /\ Len(bResults) = bIn.n
           /\ \A k \in 1..bIn.n :
                /\ bResults[k].address = BatchWallets(bIn)[k]
                /\ (BalanceFetchFailed(k) => bResults[k].error # NULL)

\* C17: no remote request is sent for an account whose address, or whose
\* asset identifier, fails the format check, in batchGetBalances on either
\* path (getTokenBalance on the public one) and in getWalletTransactions.
C17_NoRequestForInvalidAddress ==
  \A k \in 1..bIn.n :
    (~isValidAddress(BatchWallets(bIn)[k]) \/ ~isValidAddress(bIn.tokenMint))
      => k \notin bRequests

\* the call is made with a credential
Credentialed ==
  IF BalancesCall THEN bIn.hasApiKey /\ bIn.apiKey # NULL ELSE hasApiKeyTx(bIn)

\* the call is made without one
Uncredentialed ==
  IF BalancesCall THEN ~bIn.hasApiKey ELSE ~hasApiKeyTx(bIn)

\* the pause and the group size of a call without a credential
PublicDelay == IF BalancesCall THEN 500 ELSE 1000
PublicSize == IF BalancesCall THEN 3 ELSE 2

\* the call has paused between two groups
HasPaused == bIn # None /\ Len(bWaits) > 0

\* the pause last taken, and the size of the first group (a full one, since
\* another group follows it)
LastWait == bWaits[Len(bWaits)]
FullGroup == bDispatched[1]

\* C18 as stated: with a credential the pause between groups is shorter and
\* the groups are larger than without one, for balance groups and for
\* transaction batches.
C18_ShorterDelayLargerGroups ==
  HasPaused
    => /\ Uncredentialed => LastWait = PublicDelay /\ FullGroup = PublicSize
       /\ Credentialed => LastWait < PublicDelay /\ FullGroup > PublicSize

\* C18 amended: with a credential the pause between groups is longer and the
\* groups are larger than without one, for balance groups and for
\* transaction batches.
C18_LongerDelayLargerGroups ==
  HasPaused
    => /\ Uncredentialed => LastWait = PublicDelay /\ FullGroup = PublicSize
       /\ Credentialed => LastWait > PublicDelay /\ FullGroup > PublicSize

C18_Witness ==
  /\ HasPaused /\ Credentialed /\ ~BalancesCall
  /\ LastWait = 2500 /\ FullGroup = 3

\* ------------------------------------------------------------------------
\* Refresh cycles and handlers (SpecRefresh)
\* ------------------------------------------------------------------------
\* cycle c plans its transaction stage in this step
ReachesTransferStage(c) == pc[c] = "token_metadata" /\ pc'[c] = "tx_batch"

\* cycle c reads and clears the force-full flag in this step
ConsumesFlag(c) == pc[c] = "token_metadata" /\ pc'[c] # "token_metadata"

\* a cycle that reaches the transfer stage fetches in full iff it is a
\* foreground cycle, or no transfers are stored, or the flag is set
FullIffForegroundOrEmptyOrForced ==
  \A c \in Cycles :
    ReachesTransferStage(c)
      => (cyc'[c].isIncremental
            <=> ~(cyc[c].showLoading \/ storedTransactions = <<>> \/ forceFullFetch))

\* the cycle that consumes the flag resets it
ConsumedFlagIsReset ==
  \A c \in Cycles : ConsumesFlag(c) => ~forceFullFetch'

\* a set flag stays set in every step in which no cycle consumes it
FlagStaysUntilConsumed ==
  (forceFullFetch /\ ~forceFullFetch') => \E c \in Cycles : ConsumesFlag(c)

\* a set flag stays set in every step in which no cycle consumes it and no
\* project with cached data is loaded
FlagStaysUntilConsumedOrLoaded ==
  (forceFullFetch /\ ~forceFullFetch')
    => \/ \E c \in Cycles : ConsumesFlag(c)
       \/ /\ \E cachedData \in ProjectCaches : LoadProject(cachedData)
          /\ walletData' # <<>>

\* a step of replaceWallets, updateTokenMint, clearAll or manualRefresh leaves
\* the flag set
SettersSetFlag ==
  \/ forceFullFetch'
  \/ ~(\/ ReplaceWallets
       \/ \E previewData \in BOOLEAN : UpdateTokenMint(previewData)
       \/ ClearAll
       \/ ManualRefresh)

BackgroundStep(c) == InFlight(c) /\ ~cyc[c].showLoading /\ pc'[c] # pc[c]

\* every account of the view is still in the view after the step, and is a
\* pending placeholder only if it was one before
AccountsStayVisible ==
  \A j \in DOMAIN walletData :
    \E k \in DOMAIN walletData' :
      /\ walletData'[k].address = walletData[j].address
      /\ walletData'[k].status = "pending" => walletData[j].status = "pending"

\* a non-empty transfer list is not replaced by an empty one
TransfersStayVisible == transactions # <<>> => transactions' # <<>>

\* C20: no step of a background refresh removes an account from the view,
\* turns it into a pending placeholder, or replaces a non-empty visible
\* transfer list by an empty one.
C20_BackgroundNeverBlanks ==
  [][\A c \in Cycles :
       BackgroundStep(c) => AccountsStayVisible /\ TransfersStayVisible]_vars

\* C21: a balance result that carries an error never replaces the account's
\* cached amount: after any step, a cached balance entry that carries an
\* error was already cached before the step with the same uiBalance (a failed
\* result neither creates an entry nor changes the amount of one).
C21_FailedResultKeepsCachedAmount ==
  [][\A t \in Assets :
       \A j \in DOMAIN CachedWallets(balanceCache', t) :
         LET after == CachedWallets(balanceCache', t)[j]
             before == {w \in Range(CachedWallets(balanceCache, t)) :
                          w.address = after.address}
         IN  after.error # NULL
               => /\ before # {}
                  /\ \A w \in before : w.uiBalance = after.uiBalance]_cacheSpecVars

\* C22: a refresh cycle issues balance requests only for the watched accounts
\* whose cached balance is stale: whenever a cycle dispatches a group of
\* balance requests, every account of the group is one getStaleWallets
\* returns for the balance freshness window.
C22_RequestsOnlyForStaleAccounts ==
  [][\A c \in Cycles :
       (pc'[c] = "balance_group" /\ pc[c] # "balance_group")
         => Range(Slice(validWallets, cyc'[c].i, cyc'[c].i + BATCH_SIZE))
              \subseteq Range(getStaleWallets(balanceCache', tokenMint, validWallets,
                                              CACHE_TTL_WALLET_BALANCE))]_vars

\* C23: for each of the four stores independently, the store reports asset X
\* as not stale right after a merge for X, as not stale while
\* now - lastSync <= TTL and as stale once now - lastSync > TTL, with TTL =
\* 2 min (balances), 30 s (transfers), 24 h (metadata) and 1 min (price); a
\* merge into one store leaves the reports of the other three as they were,
\* and evaluating staleness changes no stored state.
C23_StalenessFollowsTtl ==
  /\ [](\A t \in Assets :
          LET Expected(cache, ttl) ==
                IF now - cache[t].lastSync > ttl THEN "stale" ELSE "fresh"
              reported == getInstantLoadData(t).staleness
          IN  /\ balanceCache[t] # None => reported.balances = Expected(balanceCache, 120)
              /\ txCache[t] # None => reported.transactions = Expected(txCache, 30)
              /\ metaCache[t] # None => reported.metadata = Expected(metaCache, 86400)
              /\ priceCache[t] # None => reported.price = Expected(priceCache, 60))
  /\ [][\A t \in Assets :
          LET before == getInstantLoadData(t).staleness
              after == getInstantLoadData(t)'.staleness
              merge == IF opCount' = opCount + 1 /\ lastCall'.tokenMint = t
                       THEN lastCall'.op ELSE "none"
          IN  /\ merge = "cacheWalletBalances"
                   => /\ after.balances = "fresh"
                      /\ after.transactions = before.transactions
                      /\ after.metadata = before.metadata
                      /\ after.price = before.price
              /\ merge = "cacheTransactions"
                   => /\ after.transactions = "fresh"
                      /\ after.balances = before.balances
                      /\ after.metadata = before.metadata
                      /\ after.price = before.price
              /\ merge = "cacheTokenMetadata"
                   => /\ after.metadata = "fresh"
                      /\ after.balances = before.balances
                      /\ after.transactions = before.transactions
                      /\ after.price = before.price
              /\ merge = "cacheTokenPrice"
                   => /\ after.price = "fresh"
                      /\ after.balances = before.balances
                      /\ after.transactions = before.transactions
                      /\ after.metadata = before.metadata
              /\ merge = "getInstantLoadData" => UNCHANGED cacheVars]_vars

\* the balance store of A, merged 121 seconds ago, is read and reports stale
C23_Witness ==
  /\ lastCall.op = "getInstantLoadData"
  /\ lastCall.tokenMint = "A"
  /\ balanceCache["A"] # None
  /\ now - balanceCache["A"].lastSync = 121
  /\ getInstantLoadData("A").staleness.balances = "stale"

\* C24: getStaleWallets(asset, accounts, maxAge) returns exactly those of the
\* given accounts, in input order, that have no cached balance entry for the
\* asset or whose entry was last updated more than maxAge ago; an account
\* merged at the current instant is not returned and a never-merged account
\* is returned.
C24_StaleWalletsExact ==
  \A t \in Assets, maxAge \in {0, 120} :
    \A accounts \in {<<"w3", "w2", "w1">>, <<"w1", "w1">>, <<>>} :
      LET entries == Range(CachedWallets(balanceCache, t))
          Needed(a) == \/ \A e \in entries : e.address # a
                       \/ \E e \in entries : e.address = a /\ e.lastUpdated < now - maxAge
          \* the k-th given account, when it is to be returned
          Part(k) == IF k \in DOMAIN accounts /\ Needed(accounts[k])
                     THEN <<accounts[k]>> ELSE <<>>
          result == getStaleWallets(balanceCache, t, accounts, maxAge)
      IN  /\ result = Part(1) \o Part(2) \o Part(3)
          /\ \A e \in entries : e.lastUpdated = now => e.address \notin Range(result)
          /\ \A k \in DOMAIN accounts :
               (\A e \in entries : e.address # accounts[k]) => accounts[k] \in Range(result)
          /\ (lastCall.op = "getStaleWallets" /\ lastCall.tokenMint = t
                /\ maxAge = 120 /\ Len(accounts) = 3)
               => lastCall.staleWallets = result

\* the call returns, in input order, w3 and w2 (never merged) and w1 (merged
\* 121 seconds ago, one second more than maxAge)
C24_Witness ==
  /\ lastCall.op = "getStaleWallets"
  /\ lastCall.tokenMint = "A"
  /\ lastCall.staleWallets = <<"w3", "w2", "w1">>
  /\ \E e \in Range(CachedWallets(balanceCache, "A")) :
       e.address = "w1" /\ now - e.lastUpdated = 121

\* C25: after clearTokenCache(X) the balance, transfer, metadata, price and
\* sync-state stores hold no entry for X (getInstantLoadData(X) reports
\* hasData = false with empty balances and transfers), and no state is
\* observable in which only some of the five entries of X were removed: a
\* step that removes one of them leaves none of them.
C25_ClearRemovesAllFive ==
  [][\A t \in Assets :
       LET Cleared == /\ balanceCache'[t] = None
                      /\ txCache'[t] = None
                      /\ metaCache'[t] = None
                      /\ priceCache'[t] = None
                      /\ syncState'[t] = None
           RemovesOne == \/ balanceCache[t] # None /\ balanceCache'[t] = None
                         \/ txCache[t] # None /\ txCache'[t] = None
                         \/ metaCache[t] # None /\ metaCache'[t] = None
                         \/ priceCache[t] # None /\ priceCache'[t] = None
                         \/ syncState[t] # None /\ syncState'[t] = None
       IN  /\ (opCount' = opCount + 1 /\ lastCall'.op = "clearTokenCache"
                 /\ lastCall'.tokenMint = t)
               => /\ Cleared
                  /\ ~getInstantLoadData(t)'.hasData
                  /\ getInstantLoadData(t)'.walletData = <<>>
                  /\ getInstantLoadData(t)'.transactions = <<>>
           /\ RemovesOne => Cleared]_vars

\* clearTokenCache(A) has just run after two merges, and B, merged before,
\* still has its balances
C25_Witness ==
  /\ lastCall.op = "clearTokenCache"
  /\ lastCall.tokenMint = "A"
  /\ opCount = 3
  /\ balanceCache["A"] = None /\ txCache["A"] = None /\ syncState["A"] = None
  /\ balanceCache["B"] # None

\* ------------------------------------------------------------------------
\* Watch set: the wallets state of the hook under addWallets, replaceWallets,
\* removeWallet, saveCurrentProject and loadProject (the part of each handler
\* that reads or writes wallets, the saveWallets record and the project)
\* ------------------------------------------------------------------------
MaxWatchOps == 3     \* handler calls in a behaviour of the watch set
MaxImport == 2       \* rows of an imported file

\* parseWalletFile: one wallet per row with an address, in row order, each with
\* a fresh id; rows are neither compared with each other nor changed in case
ImportedLists ==
  LET ImportAddresses == {"w1", "W1", "w2"}
  IN  UNION {{[i \in 1..k |-> [id |-> nextWalletId + i, address |-> rows[i]]] :
                 rows \in [1..k -> ImportAddresses]} : k \in 1..MaxImport}

WatchFrame ==
  UNCHANGED <<cacheSpecVars, clsVars, statusVars, batchVars, mergeVars, pageVars,
              progressVars, gwVars, orchVars>>

AddWallets(newWallets) ==
  /\ watchOps < MaxWatchOps
  /\ LET existingAddresses == {toLowerCase(walletList[i].address) : i \in DOMAIN walletList}
         IsNew(w) == toLowerCase(w.address) \notin existingAddresses
         updated == walletList \o SelectSeq(newWallets, IsNew)
     IN  /\ walletList' = updated
         /\ storedWallets' = updated
  /\ nextWalletId' = nextWalletId + Len(newWallets)
  /\ watchOps' = watchOps + 1
  /\ UNCHANGED savedProject
  /\ WatchFrame

\* replaceWallets, the wallets it sets and saves
SetWallets(newWallets) ==
  /\ watchOps < MaxWatchOps
  /\ walletList' = newWallets
  /\ storedWallets' = newWallets
  /\ nextWalletId' = nextWalletId + Len(newWallets)
  /\ watchOps' = watchOps + 1
  /\ UNCHANGED savedProject
  /\ WatchFrame

RemoveWallet(walletId) ==
  /\ watchOps < MaxWatchOps
  /\ LET Stays(w) == w.id # walletId
         updated == SelectSeq(walletList, Stays)
     IN  /\ walletList' = updated
         /\ storedWallets' = updated
  /\ watchOps' = watchOps + 1
  /\ UNCHANGED <<savedProject, nextWalletId>>
  /\ WatchFrame

\* saveCurrentProject, the wallets it stores with the project
SaveCurrentProject ==
  /\ watchOps < MaxWatchOps
  /\ savedProject' = [wallets |-> walletList]
  /\ watchOps' = watchOps + 1
  /\ UNCHANGED <<walletList, storedWallets, nextWalletId>>
  /\ WatchFrame

\* loadProject(project) for the saved project, the wallets it sets and saves
LoadProjectWallets ==
  /\ watchOps < MaxWatchOps
  /\ savedProject # None
  /\ walletList' = savedProject.wallets
  /\ storedWallets' = savedProject.wallets
  /\ watchOps' = watchOps + 1
  /\ UNCHANGED <<savedProject, nextWalletId>>
  /\ WatchFrame

InitWatch ==
  WatchIdle /\ CacheInit /\ ClassifierIdle /\ StatusIdle /\ BatchIdle /\ GatewayInit
    /\ OrchestratorInit /\ MergeIdle /\ PagingIdle /\ ProgressIdle

NextWatch ==
  \/ \E newWallets \in ImportedLists : AddWallets(newWallets)
  \/ \E newWallets \in ImportedLists : SetWallets(newWallets)
  \/ \E i \in DOMAIN walletList : RemoveWallet(walletList[i].id)
  \/ SaveCurrentProject
  \/ LoadProjectWallets

SpecWatch == InitWatch /\ [][NextWatch]_vars

\* C26: after any sequence of addWallets, replaceWallets, loadProject and
\* removeWallet calls no two accounts of the watch set have the same
\* case-normalized address, also when one imported list holds an address twice.
C26_AddressesUnique ==
  \A i, j \in DOMAIN walletList :
    i # j => toLowerCase(walletList[i].address) # toLowerCase(walletList[j].address)

\* ------------------------------------------------------------------------
\* Two merges into the Sync Cache in both orders: cacheTransactions or
\* cacheWalletBalances is called with batch A and then with batch B, and with
\* B and then with A, on the same cached record
\* ------------------------------------------------------------------------
MergeInit ==
  LET empty == [t \in Assets |-> None]
      \* the records a cache holds before the two merges: none, or one batch
      TransferRecords ==
        {empty} \cup {cacheTransactions(empty, "A", X, now) : X \in IncomingTransfers}
      BalanceRecords ==
        {empty} \cup {cacheWalletBalances(empty, "A", X, now) : X \in IncomingBalances}
  IN  /\ \/ \E c \in TransferRecords, A \in IncomingTransfers, B \in IncomingTransfers :
              mgIn = [kind |-> "transactions", cache |-> c, A |-> A, B |-> B, later |-> 0]
         \/ \E c \in BalanceRecords, A \in IncomingBalances, B \in IncomingBalances,
               later \in {0, 1} :
              mgIn = [kind |-> "balances", cache |-> c, A |-> A, B |-> B, later |-> later]
      /\ mgAB = None
      /\ mgBA = None

\* the first merge at Date.now(), the second one mgIn.later seconds after it
MergeBoth(first, second) ==
  IF mgIn.kind = "transactions"
  THEN cacheTransactions(cacheTransactions(mgIn.cache, "A", first, now),
                         "A", second, now + mgIn.later)
  ELSE cacheWalletBalances(cacheWalletBalances(mgIn.cache, "A", first, now),
                           "A", second, now + mgIn.later)

MergeFrame ==
  UNCHANGED <<cacheSpecVars, clsVars, statusVars, batchVars, watchVars, pageVars,
              progressVars, gwVars, orchVars>>

MergeAThenB ==
  /\ mgAB = None
  /\ mgAB' = MergeBoth(mgIn.A, mgIn.B)
  /\ UNCHANGED <<mgIn, mgBA>>
  /\ MergeFrame

MergeBThenA ==
  /\ mgBA = None
  /\ mgBA' = MergeBoth(mgIn.B, mgIn.A)
  /\ UNCHANGED <<mgIn, mgAB>>
  /\ MergeFrame

InitMerge ==
  CacheInit /\ MergeInit /\ ClassifierIdle /\ StatusIdle /\ BatchIdle /\ WatchIdle /\ PagingIdle /\ ProgressIdle
    /\ GatewayInit /\ OrchestratorInit

NextMerge == MergeAThenB \/ MergeBThenA

SpecMerge == InitMerge /\ [][NextMerge]_vars

\* both orders have been merged
MergedBothWays == mgAB # None /\ mgBA # None

\* the per-account entries of a balance record
EntriesMerged(cache) == Range(CachedWallets(cache, "A"))

\* C27 as stated: merges into the Sync Cache commute; for any two transfer
\* batches A and B, merging A then B yields the same cached transfer list as
\* merging B then A, and for any two balance batches the two merge orders
\* yield the same per-account entries.
C27_MergesCommute ==
  MergedBothWays =>
    IF mgIn.kind = "transactions"
    THEN CachedTxs(mgAB, "A") = CachedTxs(mgBA, "A")
    ELSE EntriesMerged(mgAB) = EntriesMerged(mgBA)

\* the two transfer batches and the cached list have distinct keys: no
\* transfer occurs twice within a batch, transfers that share a signature are
\* the same transfer, and transfers with different signatures have different
\* time stamps
DistinctTransferKeys ==
  LET all == Range(CachedTxs(mgIn.cache, "A")) \cup Range(mgIn.A) \cup Range(mgIn.B)
      NoRepeat(s) == \A i, j \in DOMAIN s : i # j => s[i] # s[j]
  IN  /\ NoRepeat(mgIn.A) /\ NoRepeat(mgIn.B)
      /\ \A x, y \in all :
           /\ x.signature = y.signature => x = y
           /\ x.signature # y.signature => x.timestamp # y.timestamp

\* the two balance batches name no account in common
DistinctAccounts ==
  {mgIn.A[i].address : i \in DOMAIN mgIn.A} \cap {mgIn.B[i].address : i \in DOMAIN mgIn.B} = {}

\* the amounts of per-account entries, without their time stamps
Amounts(entries) ==
  {[address |-> e.address, uiBalance |-> e.uiBalance, error |-> e.error,
    previousBalance |-> e.previousBalance,
    history |-> [i \in DOMAIN e.balanceHistory |-> e.balanceHistory[i].balance]] :
     e \in entries}

\* C27 amended: merges of batches on distinct keys commute. For two transfer
\* batches in which no transfer occurs twice within a batch, transfers that
\* share a signature (within the batches and the cached list) are the same
\* transfer and transfers with different signatures have different time
\* stamps, merging A then B yields the same cached transfer list as merging B
\* then A; for two balance batches that name no account in common the two
\* merge orders yield the same per-account amounts, and the same per-account
\* entries when both merges take place at the same instant.
C27_MergesOnDistinctKeysCommute ==
  MergedBothWays =>
    /\ (mgIn.kind = "transactions" /\ DistinctTransferKeys)
         => CachedTxs(mgAB, "A") = CachedTxs(mgBA, "A")
    /\ (mgIn.kind = "balances" /\ DistinctAccounts)
         => /\ Amounts(EntriesMerged(mgAB)) = Amounts(EntriesMerged(mgBA))
            /\ mgIn.later = 0 => EntriesMerged(mgAB) = EntriesMerged(mgBA)

\* two different batches of one transfer each, with distinct keys, have been
\* merged in both orders into a cached list that holds one of them already
C27_Witness ==
  /\ MergedBothWays
  /\ mgIn.kind = "transactions"
  /\ DistinctTransferKeys
  /\ Len(mgIn.A) = 1 /\ Len(mgIn.B) = 1 /\ mgIn.A # mgIn.B
  /\ CachedTxs(mgIn.cache, "A") = mgIn.A
  /\ Len(CachedTxs(mgAB, "A")) = 2

\* the window of a gateway key in seconds: 15 for a balance, 30 for price data
WindowOf(k) == IF k[1] = "balance" THEN 15 ELSE 30

\* the step is a call of getTokenBalance or fetchDexScreenerData for key k
GatewayCall(k) == lastGw' # lastGw /\ lastGw'.key = k

\* the latest successful fetch of key k was cached less than a window ago
WithinWindow(k) == gwCache[k] # None /\ now - gwCache[k].timestamp < WindowOf(k)

\* the latest successful fetch of key k was cached a window ago or earlier
WindowOver(k) == gwCache[k] # None /\ now - gwCache[k].timestamp >= WindowOf(k)

\* a call within the window returns the cached result and issues no request
CallWithinWindowIsServedFromCache ==
  \A k \in GatewayKeys :
    (GatewayCall(k) /\ WithinWindow(k))
      => lastGw'.how = "cache" /\ issued' = issued /\ inFlight' = inFlight

\* the step is a call of clearCache
ClearCacheStep ==
  /\ gwCache' = [k \in GatewayKeys |-> None]
  /\ pendingRequests' = [k \in GatewayKeys |-> NoPromise]

\* the cached result of key k is still there after the step, for a call made
\* within the window
ResultStays(k) ==
  (gwCache[k] # None /\ now' - gwCache[k].timestamp < WindowOf(k)) => gwCache'[k] # None

ClsAssetAppears ==
  \/ \E i \in DOMAIN clsInput.tx.preTokenBalances :
       clsInput.tx.preTokenBalances[i].mint = clsInput.tokenMint
  \/ \E i \in DOMAIN clsInput.tx.postTokenBalances :
       clsInput.tx.postTokenBalances[i].mint = clsInput.tokenMint

\* C29: parseTokenTransfer returns null when the asset appears in no pre- or
\* post-transaction token balance, when the watched wallet's tokenDelta is
\* zero, and when the raw transaction is malformed; every non-null result has
\* rawAmount > 0 and a category whose direction matches the sign of tokenDelta
\* (SELL/TRANSFER_OUT for negative, BUY/TRANSFER_IN for positive).
C29_NullOrDirectedTransfer ==
  clsDone =>
    /\ ~ClsWellFormed => clsResult = None
    /\ (ClsWellFormed /\ ~ClsAssetAppears) => clsResult = None
    /\ (ClsWellFormed /\ ClsTokenDelta = 0) => clsResult = None
    /\ clsResult # None =>
         /\ clsResult.rawAmount > 0
         /\ ClsTokenDelta # 0
         /\ ClsTokenDelta < 0 => clsResult.type \in {"SELL", "TRANSFER_OUT"}
         /\ ClsTokenDelta > 0 => clsResult.type \in {"BUY", "TRANSFER_IN"}

\* a raw transaction whose post-balances hold an entry of the watched wallet
\* followed by a null entry was parsed, and the result is null
C29_Witness ==
  /\ clsDone
  /\ clsInput.tx # None
  /\ ~ClsWellFormed
  /\ Len(clsInput.tx.postTokenBalances) = 2
  /\ clsInput.tx.postTokenBalances[1].owner = clsInput.walletAddress
  /\ clsResult = None

\* the nine statuses of a wallet
StStatuses ==
  {"OUT", "UNKNOWN", "SELLING", "SOLD", "TRANSFERRED", "RECEIVED", "BUY", "BOUGHT_MORE",
   "HOLDING"}

\* C30: getActivityStatus returns OUT whenever currentBalance <= 0 regardless
\* of the transfer history, UNKNOWN whenever the balance is positive and the
\* wallet has no transfers, SELLING whenever the balance is positive and a
\* DISPOSE lies within the last 15 minutes regardless of any other transfers,
\* and for every input exactly one of the nine statuses.
C30_OutUnknownSellingOneOfNine ==
  stDone =>
    /\ stInput.currentBalance <= 0 => stResult = "OUT"
    /\ (stInput.currentBalance > 0 /\ stInput.walletTxs = <<>>) => stResult = "UNKNOWN"
    /\ (stInput.currentBalance > 0 /\ StHas("SELL", 15)) => stResult = "SELLING"
    /\ stResult \in StStatuses

\* a disposal exactly 15 minutes old, listed after a transfer out and a
\* purchase of the same age, made the status SELLING
C30_Witness ==
  /\ stDone
  /\ stInput.currentBalance > 0
  /\ stInput.currentTime = 25
  /\ stInput.walletTxs = <<StatusTx("TRANSFER_OUT", 5, 10), StatusTx("BUY", 100, 10),
                           StatusTx("SELL", 5, 10)>>
  /\ stResult = "SELLING"

\* the entries the balance record of an asset holds (none without a record)
BalanceEntries(cache, t) == IF cache[t] = None THEN {} ELSE Range(cache[t].wallets)

\* C31: when cacheWalletBalances merges an incoming balance for an address,
\* previousBalance becomes the uiBalance cached for the address just before
\* the merge (undefined if none existed), firstSeen keeps its earlier value if
\* an entry existed (else becomes the merge time), lastUpdated becomes the
\* merge time, and the entries of the same asset for addresses that are not in
\* the incoming batch are kept unchanged.
C31_MergeSetsPreviousFirstSeenLastUpdated ==
  [][\A t \in Assets :
       (opCount' = opCount + 1 /\ lastCall'.op = "cacheWalletBalances"
          /\ lastCall'.tokenMint = t)
         => LET batch == lastCall'.balances
                incoming == {batch[i].address : i \in DOMAIN batch}
                before == BalanceEntries(balanceCache, t)
                after == BalanceEntries(balanceCache', t)
            IN  /\ \A i \in DOMAIN batch :
                     LET old == {e \in before : e.address = batch[i].address}
                         new == {e \in after : e.address = batch[i].address}
                     IN  /\ Cardinality(new) = 1
                         /\ \A e \in new :
                              /\ e.uiBalance = batch[i].uiBalance
                              /\ e.lastUpdated = now
                              /\ IF old = {}
                                 THEN e.previousBalance = Undefined /\ e.firstSeen = now
                                 ELSE \E o \in old : /\ e.previousBalance = o.uiBalance
                                                     /\ e.firstSeen = o.firstSeen
                /\ \A e \in before : e.address \notin incoming => e \in after
                /\ \A e \in after : e.address \notin incoming => e \in before]_vars

\* a balance for w1 was merged a while after w1 and w2 were first cached: w1
\* has the earlier amount as previousBalance and its first firstSeen, w2 is
\* as it was
C31_Witness ==
  /\ lastCall.op = "cacheWalletBalances"
  /\ lastCall.tokenMint = "A"
  /\ lastCall.balances = <<Balance("w1", 0)>>
  /\ now > 0
  /\ \E e \in BalanceEntries(balanceCache, "A") :
       /\ e.address = "w1" /\ e.previousBalance = 5 /\ e.uiBalance = 0
       /\ e.firstSeen = 0 /\ e.lastUpdated = now
  /\ \E e \in BalanceEntries(balanceCache, "A") :
       e.address = "w2" /\ e.lastUpdated = 0

\* ------------------------------------------------------------------------
\* Histories of the Sync Cache: balances of one asset and its price are
\* merged again and again, each merge with the amount (the price) that
\* follows the one merged before, so that a history tells the merges it holds
\* ------------------------------------------------------------------------
MaxBalanceMerges == 12   \* balance merges per account in a behaviour of SpecHistory
MaxPriceMerges == 102    \* price merges in a behaviour of SpecHistory

\* the uiBalance cached for an account of asset A, 0 without an entry
CachedAmount(w) ==
  LET hits == {e \in Range(CachedWallets(balanceCache, "A")) : e.address = w}
  IN  IF hits = {} THEN 0 ELSE (CHOOSE e \in hits : TRUE).uiBalance

\* cacheWalletBalances("A", [{ address: w, uiBalance: the next amount }])
MergeNextBalance(w) ==
  /\ CachedAmount(w) < MaxBalanceMerges
  /\ balanceCache' =
       cacheWalletBalances(balanceCache, "A", <<Balance(w, CachedAmount(w) + 1)>>, now)
  /\ syncState' = updateSyncState(syncState, "A", "balances", now)
  /\ opCount' = opCount + 1
  /\ lastCall' = [Call("cacheWalletBalances", "A") EXCEPT
                    !.balances = <<Balance(w, CachedAmount(w) + 1)>>]
  /\ UNCHANGED <<txCache, metaCache, priceCache, now>>
  /\ UNCHANGED <<unitVars, gwVars, orchVars>>

\* cacheTokenPrice("A", the next price)
MergeNextPrice ==
  LET price == IF priceCache["A"] = None THEN 1 ELSE priceCache["A"].currentPrice + 1
  IN  /\ price <= MaxPriceMerges
      /\ priceCache' = cacheTokenPrice(priceCache, "A", price, now)
      /\ opCount' = opCount + 1
      /\ lastCall' = Call("cacheTokenPrice", "A")
      /\ UNCHANGED <<balanceCache, txCache, metaCache, syncState, now>>
      /\ UNCHANGED <<unitVars, gwVars, orchVars>>

NextHistory ==
  \/ \E w \in {"w1", "w2"} : MergeNextBalance(w)
  \/ MergeNextPrice

SpecHistory == InitCache /\ [][NextHistory]_vars

\* the last k of the amounts 1..n, in the order they were merged
LatestMerged(n, k) == [i \in 1..(IF n < k THEN n ELSE k) |-> (IF n < k THEN 0 ELSE n - k) + i]

\* C32: after any sequence of balance merges every cached account's balance
\* history has at most 10 entries, holds the most recently merged amounts in
\* merge order, and its last entry is the most recently merged amount;
\* likewise the price history of every asset has at most 100 entries.
C32_HistoriesCapped ==
  /\ \A t \in Assets : \A e \in Range(CachedWallets(balanceCache, t)) :
       /\ Len(e.balanceHistory) <= 10
       /\ [i \in DOMAIN e.balanceHistory |-> e.balanceHistory[i].balance]
            = LatestMerged(e.uiBalance, 10)
       /\ e.balanceHistory[Len(e.balanceHistory)].balance = e.uiBalance
  /\ \A t \in Assets : priceCache[t] # None =>
       /\ Len(priceCache[t].priceHistory) <= 100
       /\ [i \in DOMAIN priceCache[t].priceHistory |-> priceCache[t].priceHistory[i].price]
            = LatestMerged(priceCache[t].currentPrice, 100)

\* an account has been merged 12 times and the price 102 times: both
\* histories are full and have dropped their oldest entries
C32_Witness ==
  /\ \E e \in Range(CachedWallets(balanceCache, "A")) :
       /\ e.uiBalance = 12
       /\ Len(e.balanceHistory) = 10
       /\ e.balanceHistory[1].balance = 3
  /\ priceCache["A"] # None
  /\ priceCache["A"].currentPrice = 102
  /\ Len(priceCache["A"].priceHistory) = 100
  /\ priceCache["A"].priceHistory[1].price = 3

\* ------------------------------------------------------------------------
\* Order of the cached transfers (checked under SpecCache)
\* ------------------------------------------------------------------------
\* the instant a cached timestamp stands for when the sort compares it
\* (new Date(null) is the epoch)
SortInstant(tx) == IF tx.timestamp = Undefined THEN 0 ELSE tx.timestamp

\* the timestamps of the cached transfers of asset t that carry one
CachedTimestamps(t) ==
  {CachedTxs(txCache, t)[i].timestamp : i \in DOMAIN CachedTxs(txCache, t)} \ {Undefined}

\* C33: after every cacheTransactions merge the full cached transfer list of
\* the asset is ordered by timestamp descending (newest first), so
\* getNewestTransactionTime returns the maximum timestamp of all cached
\* transfers of that asset (null when none of them carries a timestamp).
C33_NewestFirst ==
  \A t \in Assets :
    LET txs == CachedTxs(txCache, t)
        newest == getNewestTransactionTime(txCache, t)
    IN  /\ \A i, j \in DOMAIN txs : i < j => SortInstant(txs[i]) >= SortInstant(txs[j])
        /\ IF CachedTimestamps(t) = {}
           THEN newest = Undefined
           ELSE /\ newest \in CachedTimestamps(t)
                /\ \A ts \in CachedTimestamps(t) : ts <= newest

\* C33 witness: a merge of an older transfer has just run on a cache that held
\* a newer one, and the cache also holds a transfer without a timestamp.
C33_Witness ==
  /\ lastCall.op = "cacheTransactions"
  /\ lastCall.added = 1
  /\ lastCall.newTransactions = <<Transfer("s1", "w1")>>
  /\ Len(CachedTxs(txCache, "A")) = 3
  /\ CachedTxs(txCache, "A")[1].signature = "s2"
  /\ CachedTxs(txCache, "A")[3].signature = "s4"

\* ------------------------------------------------------------------------
\* getWalletTransactions: paging through the signatures of one account
\* ------------------------------------------------------------------------
SIGS_PER_PAGE == 2   \* signatures per page (limit: SIGS_PER_PAGE, 100 in the source)
MaxLedger == 3       \* signatures the ledger lists before its tail
MaxPagesArg == 2     \* largest maxPages argument
MaxTargetCount == 2  \* largest targetCount argument
DEEP_FETCH_PAGES == 15

\* the ledgers of one account, newest first: the signature of an entry is its
\* position, its blockTime is null (Undefined) or an instant, and transfer tells
\* whether getParsedTransaction yields a transaction that parseTokenTransfer
\* classifies (false for an RPC failure and for a transaction without a
\* change of the token)
Ledgers ==
  LET BlockTimes == {Undefined, 1, 3}
      NewestFirst(times) ==
        \A i, j \in DOMAIN times :
          (i < j /\ times[i] # Undefined /\ times[j] # Undefined) => times[i] >= times[j]
  IN  UNION {{[p \in 1..n |-> [signature |-> p, blockTime |-> times[p],
                               transfer |-> p \notin skipped]] :
                times \in {t \in [1..n -> BlockTimes] : NewestFirst(t)},
                skipped \in {{}, {1}}} :
             n \in 0..MaxLedger}

\* the arguments of one call; endless tells whether the ledger goes on after
\* the listed entries (each further entry a transfer at instant 1). A null
\* knownSignatures filters nothing and is the empty set here.
FetchArguments ==
  [walletAddress : {"w1", "bad!"},
   ledger : Ledgers,
   endless : BOOLEAN,
   targetCount : 1..MaxTargetCount,
   maxPages : 1..MaxPagesArg,
   deepFetch : BOOLEAN,
   sinceTimestamp : {Undefined, 2, 3},
   knownSignatures : {{}, {2}}]

\* the locals at the start of the call
FetchStart ==
  [pc |-> "start", transactions |-> <<>>, lastSignature |-> 0, pagesSearched |-> 0,
   reachedKnownData |-> FALSE, pages |-> <<>>, failed |-> FALSE, result |-> <<>>]

PagingInit ==
  /\ fetchIn \in FetchArguments
  /\ fetchSt = FetchStart

\* connection.getSignaturesForAddress(walletPubkey, { limit: SIGS_PER_PAGE, before })
getSignaturesForAddress(before) ==
  LET LedgerEntry(p) ==
        IF p <= Len(fetchIn.ledger) THEN fetchIn.ledger[p]
        ELSE [signature |-> p, blockTime |-> 1, transfer |-> TRUE]
      last == IF fetchIn.endless \/ before + SIGS_PER_PAGE <= Len(fetchIn.ledger)
              THEN before + SIGS_PER_PAGE
              ELSE Len(fetchIn.ledger)
  IN  [k \in 1..(last - before) |-> LedgerEntry(before + k)]

\* the condition of the while loop
KeepsPaging ==
  /\ fetchSt.pagesSearched < fetchIn.maxPages \/ fetchIn.deepFetch
  /\ ~fetchSt.reachedKnownData

\* if (deepFetch && pagesSearched >= 15) break;
\* if (!deepFetch && pagesSearched >= maxPages) break;
PageLimitReachedMutant(searched) ==
  \/ fetchIn.deepFetch /\ searched >= DEEP_FETCH_PAGES + 1
  \/ ~fetchIn.deepFetch /\ searched >= fetchIn.maxPages

PageLimitReached(searched) ==
  \/ fetchIn.deepFetch /\ searched >= DEEP_FETCH_PAGES
  \/ ~fetchIn.deepFetch /\ searched >= fetchIn.maxPages

PagingFrame ==
  UNCHANGED <<cacheSpecVars, clsVars, statusVars, batchVars, watchVars, mergeVars,
              progressVars, gwVars, orchVars>>

\* if (!isValidAddress(walletAddress) || !isValidAddress(tokenMint)) return []
ValidateAddresses ==
  /\ fetchSt.pc = "start"
  /\ fetchSt' = IF isValidAddress(fetchIn.walletAddress)
                THEN [fetchSt EXCEPT !.pc = "loop"]
                ELSE [fetchSt EXCEPT !.pc = "done", !.result = <<>>]
  /\ UNCHANGED fetchIn
  /\ PagingFrame

\* one iteration of the while loop: a page of signatures is requested, cut at
\* sinceTimestamp when its oldest entry is older, the known signatures are
\* skipped and the transfers among the rest are pushed in order (the batches
\* of PARALLEL_BATCH_SIZE requests do not change what is pushed)
RequestPage ==
  LET signatures == getSignaturesForAddress(fetchSt.lastSignature)
      oldestSigTime == signatures[Len(signatures)].blockTime
      cutoff == /\ fetchIn.sinceTimestamp # Undefined
                /\ oldestSigTime # Undefined
                /\ oldestSigTime < fetchIn.sinceTimestamp
      IsNew(sig) == sig.blockTime # Undefined /\ sig.blockTime >= fetchIn.sinceTimestamp
      newSigs == SelectSeq(signatures, IsNew)
      kept == IF cutoff THEN newSigs ELSE signatures
      NotKnown(sig) == sig.signature \notin fetchIn.knownSignatures
      IsTransfer(sig) == sig.transfer
      parsed == SelectSeq(SelectSeq(kept, NotKnown), IsTransfer)
      pushed == [k \in 1..Len(parsed) |->
                   [signature |-> parsed[k].signature,
                    timestamp |-> parsed[k].blockTime,
                    walletAddress |-> fetchIn.walletAddress]]
      all == fetchSt.transactions \o pushed
      \* the push at which transactions.length >= targetCount first holds
      enough == IF fetchIn.targetCount > Len(fetchSt.transactions)
                THEN fetchIn.targetCount
                ELSE Len(fetchSt.transactions) + 1
      searched == fetchSt.pagesSearched + 1
      seen == [fetchSt EXCEPT !.pages = Append(@, signatures)]
  IN  /\ fetchSt.pc = "loop"
      /\ KeepsPaging
      /\ fetchSt' =
           IF signatures = <<>>
           THEN [seen EXCEPT !.pc = "done", !.result = fetchSt.transactions]
           ELSE IF cutoff /\ newSigs = <<>>
           THEN [seen EXCEPT !.pc = "done", !.pagesSearched = searched,
                             !.reachedKnownData = TRUE, !.result = fetchSt.transactions]
           ELSE IF ~fetchIn.deepFetch /\ Len(all) >= enough
           THEN [seen EXCEPT !.pc = "done", !.pagesSearched = searched,
                             !.reachedKnownData = cutoff,
                             !.transactions = SubSeq(all, 1, enough),
                             !.result = SubSeq(all, 1, enough)]
           ELSE [seen EXCEPT !.pagesSearched = searched,
                             !.reachedKnownData = cutoff,
                             !.transactions = all,
                             !.lastSignature = kept[Len(kept)].signature,
                             !.pc = IF PageLimitReached(searched) THEN "done" ELSE "loop",
                             !.result = IF PageLimitReached(searched) THEN all ELSE <<>>]
      /\ UNCHANGED fetchIn
      /\ PagingFrame

\* the request of a page throws: catch (error) { return [] }
RequestFails ==
  /\ fetchSt.pc = "loop"
  /\ KeepsPaging
  /\ fetchSt' = [fetchSt EXCEPT !.pc = "done", !.failed = TRUE, !.result = <<>>]
  /\ UNCHANGED fetchIn
  /\ PagingFrame

\* the while condition is false: return transactions
ReturnTransactions ==
  /\ fetchSt.pc = "loop"
  /\ ~KeepsPaging
  /\ fetchSt' = [fetchSt EXCEPT !.pc = "done", !.result = fetchSt.transactions]
  /\ UNCHANGED fetchIn
  /\ PagingFrame

InitPaging ==
  PagingInit /\ CacheInit /\ ClassifierIdle /\ StatusIdle /\ BatchIdle /\ WatchIdle
    /\ MergeIdle /\ ProgressIdle /\ GatewayInit /\ OrchestratorInit

NextPaging == ValidateAddresses \/ RequestPage \/ RequestFails \/ ReturnTransactions

SpecPaging == InitPaging /\ [][NextPaging]_vars

\* every step of the call is taken as long as it has not returned
FairSpecPaging == SpecPaging /\ WF_vars(NextPaging)

\* ------------------------------------------------------------------------
\* Properties of getWalletTransactions (checked under SpecPaging)
\* ------------------------------------------------------------------------
\* the entries of a page that are older than sinceTimestamp
OlderEntries(page) ==
  {e \in Range(page) : e.blockTime # Undefined /\ e.blockTime < fetchIn.sinceTimestamp}

\* the entries of a page that are older than sinceTimestamp and not known
NewCrossingEntries(page) ==
  {e \in OlderEntries(page) : e.signature \notin fetchIn.knownSignatures}

\* the call has returned from an incremental fetch
IncrementalFetchDone == fetchSt.pc = "done" /\ fetchIn.sinceTimestamp # Undefined

\* C34: given a since-timestamp T and a known-id set K, getWalletTransactions
\* returns no transfer whose id is in K, and returns no transfer with
\* timestamp < T unless its id is absent from K and it was the sole new entry
\* of its page crossing the boundary; paging stops after the first page that
\* reaches entries older than T.
C34_IncrementalCutoff ==
  IncrementalFetchDone =>
    /\ \A x \in Range(fetchSt.result) : x.signature \notin fetchIn.knownSignatures
    /\ \A x \in Range(fetchSt.result) :
         (x.timestamp # Undefined /\ x.timestamp < fetchIn.sinceTimestamp)
           => \E i \in DOMAIN fetchSt.pages :
                /\ x.signature \in {e.signature : e \in Range(fetchSt.pages[i])}
                /\ {e.signature : e \in NewCrossingEntries(fetchSt.pages[i])} = {x.signature}
    /\ \A i \in DOMAIN fetchSt.pages :
         OlderEntries(fetchSt.pages[i]) # {} => i = Len(fetchSt.pages)

\* the signature pages the call has requested
PagesRequested == Len(fetchSt.pages) + (IF fetchSt.failed THEN 1 ELSE 0)

\* the transfers of the requested pages
TransfersListed ==
  {e.signature : e \in {e \in UNION {Range(fetchSt.pages[i]) : i \in DOMAIN fetchSt.pages} :
                          e.transfer}}

\* the limits of a call: a non-deep fetch requests at most maxPages pages and
\* returns at most targetCount transfers; a deep fetch requests at most 15
\* pages and, when no page request failed and nothing is known or cut off,
\* returns every transfer of the pages it requested
WithinLimits ==
  /\ ~fetchIn.deepFetch =>
       /\ PagesRequested <= fetchIn.maxPages
       /\ Len(fetchSt.result) <= fetchIn.targetCount
  /\ fetchIn.deepFetch =>
       /\ PagesRequested <= 15
       /\ (/\ fetchSt.pc = "done"
           /\ ~fetchSt.failed
           /\ fetchIn.sinceTimestamp = Undefined
           /\ fetchIn.knownSignatures = {}
           /\ isValidAddress(fetchIn.walletAddress))
            => {x.signature : x \in Range(fetchSt.result)} = TransfersListed

MaxAccounts == 22    \* largest number of valid watched accounts

\* progress: 15 + Math.round((progress.percent / 100) * 35) with
\* percent: Math.round((completedCount / wallets.length) * 100)
balanceProgress(completed, total) ==
  15 + Round(Round(completed * 100, total) * 35, 100)

\* const txProgress = 50 + Math.round((batchNum / totalBatches) * 45) with
\* batchNum = Math.floor(i / TX_BATCH_SIZE) + 1 and
\* totalBatches = Math.ceil(validWallets.length / TX_BATCH_SIZE)
txProgressOf(i, total, size) ==
  50 + Round(((i \div size) + 1) * 45, (total + size - 1) \div size)

\* BATCH_SIZE of batchGetBalances and TX_BATCH_SIZE of fetchData
ProgressBatchSize == IF progSt.hasApiKey THEN 5 ELSE 3
ProgressTxBatchSize == IF progSt.hasApiKey THEN 3 ELSE 2

ProgressInit ==
  /\ progN \in 0..MaxAccounts
  /\ \E key \in BOOLEAN :
       progSt = [stage |-> "start", hasApiKey |-> key, i |-> 0, reported |-> <<>>]

ProgressFrame ==
  UNCHANGED <<cacheSpecVars, clsVars, statusVars, batchVars, watchVars, mergeVars, pageVars,
              gwVars, orchVars>>

\* what a report leaves: the percentage is appended to those reported
Reported(progress, stage, i) ==
  [progSt EXCEPT !.reported = Append(@, progress), !.stage = stage, !.i = i]

\* setLoadingStatus({ stage: 'token_info', progress: 5 })
ReportTokenInfo ==
  /\ progSt.stage = "start"
  /\ progSt' = Reported(5, "token_info", 0)
  /\ UNCHANGED progN
  /\ ProgressFrame

\* getTokenInfo has resolved: setLoadingStatus({ stage: 'balances', progress: 15 })
ReportBalances ==
  /\ progSt.stage = "token_info"
  /\ progSt' = Reported(15, "balances", 0)
  /\ UNCHANGED progN
  /\ ProgressFrame

\* a group of batchGetBalances has settled: onBalanceProgress
ReportBalanceGroup ==
  LET completed == IF progSt.i + ProgressBatchSize < progN
                   THEN progSt.i + ProgressBatchSize ELSE progN
  IN  /\ progSt.stage = "balances"
      /\ progSt.i < progN
      /\ progSt' = Reported(balanceProgress(completed, progN), "balances",
                            progSt.i + ProgressBatchSize)
      /\ UNCHANGED progN
      /\ ProgressFrame

\* batchGetBalances and getTokenMetadata have resolved:
\* setLoadingStatus({ stage: 'balances', progress: 55 })
ReportProcessingBalances ==
  /\ progSt.stage = "balances"
  /\ progSt.i >= progN
  /\ progSt' = Reported(55, IF progN > 0 THEN "transactions" ELSE "done", 0)
  /\ UNCHANGED progN
  /\ ProgressFrame

\* a transaction batch is dispatched: setLoadingStatus({ progress: txProgress })
ReportTxBatch ==
  /\ progSt.stage = "transactions"
  /\ progSt.i < progN
  /\ progSt' = Reported(txProgressOf(progSt.i, progN, ProgressTxBatchSize), "transactions",
                        progSt.i + ProgressTxBatchSize)
  /\ UNCHANGED progN
  /\ ProgressFrame

\* the batches are through: setLoadingStatus({ stage: 'transactions', progress: 98 })
ReportProcessingTransactions ==
  /\ progSt.stage = "transactions"
  /\ progSt.i >= progN
  /\ progSt' = Reported(98, "done", 0)
  /\ UNCHANGED progN
  /\ ProgressFrame

InitProgress ==
  ProgressInit /\ CacheInit /\ ClassifierIdle /\ StatusIdle /\ BatchIdle /\ WatchIdle
    /\ MergeIdle /\ PagingIdle /\ GatewayInit /\ OrchestratorInit

NextProgress ==
  \/ ReportTokenInfo
  \/ ReportBalances
  \/ ReportBalanceGroup
  \/ ReportProcessingBalances
  \/ ReportTxBatch
  \/ ReportProcessingTransactions

SpecProgress == InitProgress /\ [][NextProgress]_vars

\* C36: within one refresh cycle that is neither cancelled nor failed, the
\* successively reported progress percentages never decrease from the
\* token-info stage through balances and transfers to finalize, for every
\* number of watched accounts.
C36_ProgressNeverDecreases ==
  \A k \in 1..(Len(progSt.reported) - 1) : progSt.reported[k] <= progSt.reported[k + 1]

\* C37: whenever a refresh cycle is in flight, a cancel() call sets the abort
\* signal of that cycle, and the in-progress flag is true for as long as the
\* cycle runs (until it is cancelled), including when an earlier,
\* already-cancelled cycle runs its cleanup while a newer cycle is in flight.
C37_CancelReachesCycleInFlight ==
  /\ [](\A c \in Cycles : (InFlight(c) /\ ~cyc[c].aborted) => isFetching)
  /\ [][CancelFetch => \A c \in Cycles : InFlight(c) => cyc'[c].aborted]_vars

\* cycle c completes in this step without error or cancellation
Completes(c) == pc[c] \notin EndStates /\ pc'[c] = "done"

\* C38: when a refresh cycle completes without error or cancellation, every
\* transfer held in the Sync Cache for the tracked asset is in the visible
\* transfer list; in particular a foreground (full) refresh that discovers no
\* transfer that is not already known leaves the previously visible transfers
\* in place.
C38_CachedTransfersVisible ==
  [][\A c \in Cycles :
       Completes(c)
         => Range(CachedTxs(txCache', tokenMint)) \subseteq Range(transactions')]_vars

\* ------------------------------------------------------------------------
\* Sync Orchestrator with the deep-history fetch of one account
\* ------------------------------------------------------------------------
\* deepFetchWalletTransactions(connection, walletAddress, tokenMint): the whole
\* history of the account, nothing known and no since-timestamp; the oldest
\* transfer of w1 (s0) lies beyond the pages an ordinary fetch reads
deepFetchWalletTransactions(walletAddress) ==
  getWalletTransactions(walletAddress, Undefined, {})
    \o (IF walletAddress = "w1" THEN <<Transfer("s0", "w1")>> ELSE <<>>)

\* deepFetchWalletHistory(walletAddress), when deepFetchWalletTransactions has
\* resolved: setTransactions(prev => ...) and saveTransactions(merged)
DeepFetchWalletHistory(walletAddress) ==
  LET deepTxs == deepFetchWalletTransactions(walletAddress)
      prev == transactions
      newTxs == uniqueNew(prev, deepTxs)
      deepMerged == SortByTimestampDesc(prev \o newTxs)
  IN  /\ IF target.tokenMint /\ Len(deepTxs) > 0 /\ Len(newTxs) > 0
         THEN /\ transactions' = deepMerged
              /\ storedTransactions' = deepMerged
         ELSE UNCHANGED <<transactions, storedTransactions>>
      /\ UNCHANGED <<pc, cyc, isFetching, abortController, forceFullFetch, isLoading,
                     isRefreshing, error, loadingStatus, statusResets, walletData,
                     tokenInfo, storedWalletData, started, heliusApiKey, target>>
      /\ UNCHANGED <<cacheSpecVars, unitVars, gwVars>>

NextDeep ==
  \/ Next
  \/ \E w \in {"w1", "w2"} : DeepFetchWalletHistory(w)

SpecDeep == Init /\ [][NextDeep]_vars

\* the transfers only a deep-history fetch yields
DeepOnlyTransfers ==
  UNION {Range(deepFetchWalletTransactions(w))
           \ Range(getWalletTransactions(w, Undefined, {})) : w \in {"w1", "w2"}}

\* C39: transfers added to the visible list by a deep-history fetch are still
\* in the visible and persisted transfer list after any later or concurrently
\* running refresh cycle completes, whether or not that cycle found new
\* transfers.
C39_DeepTransfersKept ==
  [][\A c \in Cycles :
       Completes(c)
         => \A x \in DeepOnlyTransfers :
              x \in Range(transactions)
                => x \in Range(transactions') /\ x \in Range(storedTransactions')]_vars

\* ------------------------------------------------------------------------
\* A growing watch set: addWallets and the refresh cycles that follow it. A
\* cycle runs here from entry to completion without another handler in
\* between; of what fetchData writes, the transfer lists, the force-full flag
\* and the Sync Cache's transfer record are represented.
\* ------------------------------------------------------------------------
\* the signatures the ledger lists for an account that can be imported,
\* newest first
ImportedSignatures(address) ==
  CASE address = "w1" -> <<"s2", "s1">>
    [] address = "w2" -> <<"s3", "s0">>
    [] OTHER          -> <<>>

\* fetchData(showLoading) over the watched accounts, run to completion
RefreshCycle(showLoading) ==
  LET watched == [k \in 1..Len(walletList) |-> walletList[k].address]
      valid == SelectSeq(watched, isValidSolanaAddress)
      existingTxs == storedTransactions
      knownSignatures == {existingTxs[i].signature : i \in DOMAIN existingTxs}
      shouldDoFullFetch == ShouldDoFullFetch(showLoading, existingTxs, forceFullFetch)
      sinceTimestamp ==
        IF ~shouldDoFullFetch /\ Len(existingTxs) > 0
        THEN SortByTimestampDesc(existingTxs)[1].timestamp
        ELSE Undefined
      isIncremental == ~shouldDoFullFetch
      \* allTxResults.flat()
      Flat[k \in 0..Len(valid)] ==
        IF k = 0 THEN <<>>
        ELSE Flat[k - 1] \o TransfersOfPage(ImportedSignatures(valid[k]), valid[k],
                                            sinceTimestamp, knownSignatures)
      newTxs == Flat[Len(valid)]
  IN  /\ Len(walletList) > 0
      /\ Len(valid) > 0
      /\ forceFullFetch' = FALSE
      /\ IF Len(newTxs) > 0
         THEN /\ txCache' = cacheTransactions(txCache, tokenMint, newTxs, now)
              /\ syncState' = updateSyncState(syncState, tokenMint, "transactions", now)
              /\ transactions' = CachedTxs(txCache', tokenMint)
              /\ storedTransactions' = CachedTxs(txCache', tokenMint)
         ELSE IF ~isIncremental
         THEN /\ transactions' = <<>>
              /\ storedTransactions' = <<>>
              /\ UNCHANGED <<txCache, syncState>>
         ELSE UNCHANGED <<txCache, syncState, transactions, storedTransactions>>
      /\ UNCHANGED <<balanceCache, metaCache, priceCache, now, opCount, lastCall>>
      /\ UNCHANGED <<pc, cyc, isFetching, abortController, isLoading, isRefreshing, error,
                     loadingStatus, statusResets, walletData, tokenInfo, storedWalletData,
                     started, heliusApiKey, target>>
      /\ UNCHANGED <<unitVars, gwVars>>

\* setInterval(() => fetchData(false), ...)
TimerRefresh == RefreshCycle(FALSE)

\* the effect on [tokenMint, wallets.length, ...]: fetchData(!hasCachedData)
EffectRefresh == RefreshCycle(~(Len(storedWalletData) > 0 \/ Len(storedTransactions) > 0))

NextGrow ==
  \/ \E newWallets \in ImportedLists : AddWallets(newWallets)
  \/ EffectRefresh
  \/ TimerRefresh

SpecGrow == InitWatch /\ [][NextGrow]_vars

\* the interval timer keeps firing
FairSpecGrow == SpecGrow /\ WF_vars(TimerRefresh)

\* the account is watched and the Sync Cache holds transfers of the asset
WatchedWithCachedTransfers(address) ==
  /\ \E k \in DOMAIN walletList : walletList[k].address = address
  /\ CachedTxs(txCache, tokenMint) # <<>>

\* the account's transfers older than the newest cached one are cached
OlderTransfersCached(address) ==
  {s \in Range(ImportedSignatures(address)) :
     /\ SigTime[s] < getNewestTransactionTime(txCache, tokenMint)
     /\ Transfer(s, address) \notin Range(CachedTxs(txCache, tokenMint))} = {}

\* C40: after addWallets adds an account to a watch set for which cached
\* transfers already exist, some subsequent timer-driven refresh cycle fetches
\* that account's transfers that are older than the newest cached transfer
\* timestamp, so they eventually appear in the Sync Cache without a manual
\* refresh or destructive operation.
C40_AddedAccountHistoryArrives ==
  \A address \in {"w1", "W1", "w2"} :
    WatchedWithCachedTransfers(address) ~> OlderTransfersCached(address)

====
